---- MODULE Spec2Model ----
(***************************************************************************)
(* Model of gcc015/survey-converter: the question segmentation engine,     *)
(* the table-option extractor, the option assignment heuristic, the        *)
(* question-type classifier (survey_parser.py) and the XML emitter         *)
(* (xml_generator.py).                                                     *)
(*                                                                         *)
(* Text is modelled character by character: a Python str is a sequence of  *)
(* one-character strings.  A CJK character is written by its code point    *)
(* ("U+5E74" is one character), since the module is ASCII.                 *)
(***************************************************************************)
EXTENDS Integers, Sequences, FiniteSets, TLC

(***************************************************************************)
(* Characters and the str methods / regex classes the code relies on       *)
(***************************************************************************)

\* The empty str
EmptyStr == <<>>

\* regex \s and the characters str.strip() removes
IsSpace(c) == c \in {" ", "\t", "\n"}

\* regex \d and str.isdigit() on one character
IsDigitChar(c) == c \in {"0", "1", "2", "3", "4", "5", "6", "7", "8", "9"}

UpperLetters == <<"A", "B", "C", "D", "E", "F", "G", "H", "I", "J", "K", "L", "M",
                  "N", "O", "P", "Q", "R", "S", "T", "U", "V", "W", "X", "Y", "Z">>

LowerLetters == <<"a", "b", "c", "d", "e", "f", "g", "h", "i", "j", "k", "l", "m",
                  "n", "o", "p", "q", "r", "s", "t", "u", "v", "w", "x", "y", "z">>

\* regex [a-zA-Z]
IsLetter(c) == \E k \in 1..26 : UpperLetters[k] = c \/ LowerLetters[k] = c

LowerChar(c) ==
    IF \E k \in 1..26 : UpperLetters[k] = c
    THEN LowerLetters[CHOOSE k \in 1..26 : UpperLetters[k] = c]
    ELSE c

\* str.lower()
lower(s) == [k \in 1..Len(s) |-> LowerChar(s[k])]

\* s[a..b] with Python's clipping of an empty slice
Slice(s, a, b) == IF a > b THEN <<>> ELSE SubSeq(s, a, b)

\* the suffix of s from position p (1-based)
From(s, p) == Slice(s, p, Len(s))

\* Python's "sub in s"
contains(sub, s) ==
    \E k \in 0..(Len(s) - Len(sub)) : Slice(s, k + 1, k + Len(sub)) = sub

\* s has the literal w at position p (1-based)
HasAt(s, p, w) == p + Len(w) - 1 <= Len(s) /\ Slice(s, p, p + Len(w) - 1) = w

\* length of the maximal run of whitespace starting at position p
RECURSIVE SpaceRun(_, _)
SpaceRun(s, p) == IF p <= Len(s) /\ IsSpace(s[p]) THEN 1 + SpaceRun(s, p + 1) ELSE 0

\* length of the maximal run of digits starting at position p
RECURSIVE DigitRun(_, _)
DigitRun(s, p) == IF p <= Len(s) /\ IsDigitChar(s[p]) THEN 1 + DigitRun(s, p + 1) ELSE 0

\* length of the maximal run of digits ending at position p
RECURSIVE DigitRunBack(_, _)
DigitRunBack(s, p) == IF p >= 1 /\ IsDigitChar(s[p]) THEN 1 + DigitRunBack(s, p - 1) ELSE 0

\* length of the maximal run of whitespace ending at position p
RECURSIVE SpaceRunBack(_, _)
SpaceRunBack(s, p) == IF p >= 1 /\ IsSpace(s[p]) THEN 1 + SpaceRunBack(s, p - 1) ELSE 0

\* str.strip()
strip(s) ==
    LET a == SpaceRun(s, 1)
        b == SpaceRunBack(s, Len(s))
    IN  IF a >= Len(s) THEN <<>> ELSE Slice(s, a + 1, Len(s) - b)

\* str.isdigit(): non-empty and all digits
isdigit(s) == Len(s) > 0 /\ \A k \in 1..Len(s) : IsDigitChar(s[k])

\* str(n) for a natural number n
Digit == <<"0", "1", "2", "3", "4", "5", "6", "7", "8", "9">>

RECURSIVE DecimalStr(_)
DecimalStr(n) == IF n < 10 THEN <<Digit[n + 1]>> ELSE DecimalStr(n \div 10) \o <<Digit[(n % 10) + 1]>>

\* regex ".*$" / ".+$" on the rest of a string: "." does not match a newline,
\* "$" matches at the end or before a final newline
DotsToEnd(s) ==
    \A k \in 1..Len(s) : s[k] = "\n" => k = Len(s)

\* text.split('\n')[0]
FirstLine(s) ==
    IF \E k \in 1..Len(s) : s[k] = "\n"
    THEN Slice(s, 1, (CHOOSE k \in 1..Len(s) :
                         s[k] = "\n" /\ \A j \in 1..(k - 1) : s[j] # "\n") - 1)
    ELSE s

(***************************************************************************)
(* Literals of the code                                                    *)
(***************************************************************************)

kw_ask == <<"a", "s", "k">>
kw_all == <<"a", "l", "l">>
kw_if == <<"i", "f">>
kw_single == <<"s", "i", "n", "g", "l", "e">>
kw_multiple == <<"m", "u", "l", "t", "i", "p", "l", "e">>
kw_open == <<"o", "p", "e", "n">>
kw_answer == <<"a", "n", "s", "w", "e", "r">>
kw_numeric == <<"n", "u", "m", "e", "r", "i", "c">>

\* the three type strings the emitter compares with, and assigns on inference
SingleAnswer == <<"S", "i", "n", "g", "l", "e", " ", "A", "n", "s", "w", "e", "r">>
MultipleAnswers == <<"M", "u", "l", "t", "i", "p", "l", "e", " ", "A", "n", "s", "w", "e", "r", "s">>
Numeric == <<"N", "u", "m", "e", "r", "i", "c">>

\* keywords of _assign_table_options
kw_gender == <<"U+6027", "U+522B">>
kw_age == <<"U+5E74", "U+9F84">>
kw_residency == <<"U+5C45", "U+7559", "U+8EAB", "U+4EFD">>
kw_creditcard == <<"U+4FE1", "U+7528", "U+5361">>
kw_holds_any == <<"U+6301", "U+6709", "U+4EFB", "U+4F55">>
kw_occupation == <<"U+804C", "U+4E1A">>
kw_annual_income == <<"U+5E74", "U+6536", "U+5165">>
kw_bank == <<"U+94F6", "U+884C">>
kw_holds_which == <<"U+6301", "U+6709", "U+54EA", "U+4E9B">>
kw_Mastercard == <<"M", "a", "s", "t", "e", "r", "c", "a", "r", "d">>
kw_Visa == <<"V", "i", "s", "a">>
kw_mmpower == <<"m", "m", "p", "o", "w", "e", "r">>
kw_mastercard == <<"m", "a", "s", "t", "e", "r", "c", "a", "r", "d">>
kw_when_obtained == <<"U+4F55", "U+65F6", "U+53D6", "U+5F97">>
kw_when == <<"w", "h", "e", "n">>
kw_spending == <<"U+6D88", "U+8D39">>
kw_expense == <<"U+5F00", "U+9500">>
kw_hkd == <<"U+6E2F", "U+5E01">>
kw_yuan == <<"U+5143">>
kw_Multiple == <<"M", "u", "l", "t", "i", "p", "l", "e">>

\* faulty variant of NumericKeywords: the age keyword is missing
NumericKeywords_NoAge ==
    { <<"U+6536", "U+5165">>, <<"U+91D1", "U+989D">>,
      <<"U+6570", "U+91CF">>, <<"U+767E", "U+5206", "U+6BD4">>, <<"U+6BD4", "U+4F8B">> }

\* keywords of _infer_question_type_from_content
NumericKeywords ==
    { <<"U+5E74", "U+9F84">>, <<"U+6536", "U+5165">>, <<"U+91D1", "U+989D">>,
      <<"U+6570", "U+91CF">>, <<"U+767E", "U+5206", "U+6BD4">>, <<"U+6BD4", "U+4F8B">> }

MultiSelectKeywords ==
    { <<"U+9009", "U+62E9", "U+6240", "U+6709">>, <<"U+591A", "U+9009">>,
      <<"U+54EA", "U+4E9B">>, <<"U+54EA", "U+4E09", "U+4E2A">>,
      <<"U+524D", "U+4E09", "U+4E2A">> }

kw_male == <<"U+7537">>
kw_female == <<"U+5973">>

(***************************************************************************)
(* The patterns of SurveyParser.question_patterns, matched as re.match     *)
(* matches them (anchored at the start, greedy with backtracking)          *)
(***************************************************************************)

\* 'answer_logic': ^(ASK\s+ALL|ASK\s+IF\s+.+)$ with re.IGNORECASE
answer_logic_matches(s) ==
    LET L == lower(s)
        r == SpaceRun(L, 4)
        q == 4 + r
        r2 == SpaceRun(L, q + 2)
    IN  /\ HasAt(L, 1, kw_ask)
        /\ r >= 1
        /\ \/ HasAt(L, q, kw_all) /\ From(s, q + 3) \in {<<>>, <<"\n">>}
           \/ /\ HasAt(L, q, kw_if)
              /\ \E j \in 1..r2 :
                    LET rest == From(s, q + 2 + j)
                    IN  Len(rest) >= 1 /\ rest[1] # "\n" /\ DotsToEnd(rest)

\* position where a two-word alternative "w1\s+Answer" ends in s, 0 if s does
\* not start with it
TwoWordEnd(L, w1) ==
    LET r == SpaceRun(L, Len(w1) + 1)
    IN  IF HasAt(L, 1, w1) /\ r >= 1 /\ HasAt(L, Len(w1) + 1 + r, kw_answer)
        THEN Len(w1) + r + Len(kw_answer)
        ELSE 0

\* 'question_type': end of group 1 of
\* ^(Single\s+Answer|Multiple\s+Answers?|Open\s+Answer|Numeric)\.?\s*.*$
\* with re.IGNORECASE; 0 when the alternatives do not match
question_type_group_end(s) ==
    LET L == lower(s)
        e1 == TwoWordEnd(L, kw_single)
        e2 == TwoWordEnd(L, kw_multiple)
        e3 == TwoWordEnd(L, kw_open)
    IN  IF e1 > 0 THEN e1
        ELSE IF e2 > 0 THEN (IF e2 + 1 <= Len(L) /\ L[e2 + 1] = "s" THEN e2 + 1 ELSE e2)
        ELSE IF e3 > 0 THEN e3
        ELSE IF HasAt(L, 1, kw_numeric) THEN Len(kw_numeric)
        ELSE 0

\* whether the whole 'question_type' pattern matches s
question_type_matches(s) ==
    LET e == question_type_group_end(s)
        dot == IF e + 1 <= Len(s) /\ s[e + 1] = "." THEN 1 ELSE 0
        w == SpaceRun(s, e + 1 + dot)
    IN  e > 0 /\ DotsToEnd(From(s, e + 1 + dot + w))

\* type_match.group(1): the matched alternative, verbatim from s
question_type_group1(s) == Slice(s, 1, question_type_group_end(s))

\* 'question_number': ^(\d+\.\d+[a-zA-Z]?)\s*(.+)$ ; the ways the pattern can
\* match s, as <<k, l, j>>: k digits after the dot, l letters (0 or 1) and j
\* whitespace characters before group 2
question_number_ways(s) ==
    LET a == DigitRun(s, 1)
        b == DigitRun(s, a + 2)
    IN  IF a >= 1 /\ a + 1 <= Len(s) /\ s[a + 1] = "." /\ b >= 1
        THEN { w \in (1..b) \X {0, 1} \X (0..Len(s)) :
                 LET q == a + 1 + w[1] + 1
                     q2 == q + w[2]
                     rest == From(s, q2 + w[3])
                 IN  /\ w[2] = 1 => (q <= Len(s) /\ IsLetter(s[q]))
                     /\ w[3] <= SpaceRun(s, q2)
                     /\ Len(rest) >= 1 /\ rest[1] # "\n" /\ DotsToEnd(rest) }
        ELSE {}

\* greedy preference of the regex engine: more digits, then the letter, then
\* more whitespace
WayBefore(v, w) ==
    \/ v[1] > w[1]
    \/ v[1] = w[1] /\ v[2] > w[2]
    \/ v[1] = w[1] /\ v[2] = w[2] /\ v[3] >= w[3]

question_number_matches(s) == question_number_ways(s) # {}

question_number_way(s) ==
    CHOOSE w \in question_number_ways(s) :
        \A v \in question_number_ways(s) : WayBefore(w, v)

\* match.group(1) of 'question_number'
question_number_group1(s) ==
    LET w == question_number_way(s)
    IN  Slice(s, 1, DigitRun(s, 1) + 1 + w[1] + w[2])

\* match.group(2) of 'question_number'
question_number_group2(s) ==
    LET w == question_number_way(s)
    IN  From(s, DigitRun(s, 1) + 1 + w[1] + w[2] + w[3] + 1)

\* where "$" lets the 'option' pattern end: the end of s, or before a final newline
OptionEnd(s) == IF Len(s) >= 1 /\ s[Len(s)] = "\n" THEN Len(s) - 1 ELSE Len(s)

\* 'option': ^(.+?)\s+(\d+)$ ; length of group 1 (lazy), 0 when no match
option_group1_len(s) ==
    LET n == OptionEnd(s)
        d == DigitRunBack(s, n)
        w == SpaceRunBack(s, n - d)
        m == IF n - d - w >= 1 THEN n - d - w ELSE 1
    IN  IF d >= 1 /\ w >= 1 /\ n - d - m >= 1
           /\ \A k \in 1..m : s[k] # "\n"
        THEN m
        ELSE 0

(***************************************************************************)
(* SurveyParser predicates                                                 *)
(***************************************************************************)

_is_answer_logic(text) == answer_logic_matches(text)

_is_question_type(text) == question_type_matches(text)

_is_option(text) == option_group1_len(text) > 0

\* the Option record of an inline option line (called only when _is_option)
_parse_option(text) ==
    LET m == option_group1_len(text)
        n == OptionEnd(text)
        d == DigitRunBack(text, n)
    IN  [option_code |-> strip(Slice(text, n - d + 1, n)),
         option_text |-> strip(Slice(text, 1, m))]

_clean_question_text(text) ==
    LET question_text == strip(FirstLine(text))
    IN  IF question_type_matches(question_text) THEN EmptyStr
        ELSE IF answer_logic_matches(question_text) THEN EmptyStr
        ELSE question_text

\* str.split('.') of a numbering: the pieces between the dots
RECURSIVE SplitDot(_)
SplitDot(s) ==
    IF \E k \in 1..Len(s) : s[k] = "."
    THEN LET k == CHOOSE k \in 1..Len(s) : s[k] = "." /\ \A j \in 1..(k - 1) : s[j] # "."
         IN  <<Slice(s, 1, k - 1)>> \o SplitDot(From(s, k + 1))
    ELSE <<s>>

_generate_question_id(question_num) ==
    LET parts == SplitDot(question_num)
    IN  IF Len(parts) = 2
        THEN <<"Q">> \o parts[1] \o <<"x">> \o parts[2]
        ELSE <<"Q">> \o question_num

(***************************************************************************)
(* Table-Option Extractor                                                  *)
(***************************************************************************)

\* one row of a table grid (a sequence of cell texts) appended to the options
\* collected so far in its table
\* faulty variant of ExtractRow: the second pair of a wide row is read only
\* when the first pair was usable
ExtractRow_SecondNeedsFirst(options, row) ==
    IF Len(row) >= 4
    THEN IF strip(row[1]) # EmptyStr /\ strip(row[2]) # EmptyStr
         THEN Append(options, [option_code |-> strip(row[2]), option_text |-> strip(row[1])])
              \o (IF strip(row[3]) # EmptyStr /\ strip(row[4]) # EmptyStr
                  THEN <<[option_code |-> strip(row[4]), option_text |-> strip(row[3])]>>
                  ELSE <<>>)
         ELSE options
    ELSE IF Len(row) >= 2
    THEN IF strip(row[1]) # EmptyStr /\ strip(row[2]) # EmptyStr
         THEN Append(options, [option_code |-> strip(row[2]), option_text |-> strip(row[1])])
         ELSE options
    ELSE IF Len(row) >= 1
    THEN IF strip(row[1]) # EmptyStr /\ ~isdigit(strip(row[1]))
         THEN Append(options, [option_code |-> DecimalStr(Len(options) + 1),
                               option_text |-> strip(row[1])])
         ELSE options
    ELSE options

ExtractRow(options, row) ==
    IF Len(row) >= 4
    THEN LET option_text1 == strip(row[1])
             option_code1 == strip(row[2])
             option_text2 == strip(row[3])
             option_code2 == strip(row[4])
             first == IF option_text1 # EmptyStr /\ option_code1 # EmptyStr
                      THEN <<[option_code |-> option_code1, option_text |-> option_text1]>>
                      ELSE <<>>
             second == IF option_text2 # EmptyStr /\ option_code2 # EmptyStr
                       THEN <<[option_code |-> option_code2, option_text |-> option_text2]>>
                       ELSE <<>>
         IN  options \o first \o second
    ELSE IF Len(row) >= 2
    THEN LET option_text == strip(row[1])
             option_code == strip(row[2])
         IN  IF option_text # EmptyStr /\ option_code # EmptyStr
             THEN Append(options, [option_code |-> option_code, option_text |-> option_text])
             ELSE options
    ELSE IF Len(row) >= 1
    THEN LET option_text == strip(row[1])
         IN  IF option_text # EmptyStr /\ ~isdigit(option_text)
             THEN Append(options, [option_code |-> DecimalStr(Len(options) + 1),
                                   option_text |-> option_text])
             ELSE options
    ELSE options

\* the options of one table: its rows folded in order
RECURSIVE ExtractTable(_, _)
ExtractTable(options, rows) ==
    IF rows = <<>> THEN options
    ELSE ExtractTable(ExtractRow(options, Head(rows)), Tail(rows))

\* faulty variant of _extract_table_options: a table without options
\* contributes an empty list
_extract_table_options_KeepsEmpty(tables) ==
    [k \in 1..Len(tables) |-> ExtractTable(<<>>, tables[k])]

RECURSIVE _extract_table_options(_)
_extract_table_options(tables) ==
    IF tables = <<>> THEN <<>>
    ELSE LET options == ExtractTable(<<>>, Head(tables))
         IN  (IF options # <<>> THEN <<options>> ELSE <<>>)
             \o _extract_table_options(Tail(tables))

(***************************************************************************)
(* Question records during segmentation.  question_options is a reference  *)
(* to a list object: options_ref = 0 is the list created with the question *)
(* (own_options holds its content), options_ref = k > 0 is the list object *)
(* table_options[k], shared with every other question bound to it.         *)
(***************************************************************************)

NoQuestion == [index |-> 0]

NewQuestion(index, para) ==
    [index |-> index, answer_logic |-> para, question_id |-> EmptyStr,
     question_text |-> EmptyStr, question_type |-> EmptyStr,
     options_ref |-> 0, own_options |-> <<>>]

\* question["question_options"], read through the reference
QuestionOptions(q, topts) ==
    IF q.options_ref = 0 THEN q.own_options ELSE topts[q.options_ref]

(***************************************************************************)
(* Option Assignment Heuristic                                             *)
(***************************************************************************)

\* any(w in opt["option_text"] for opt in options), for one of the words
AnyOptionText(options, words) ==
    \E k \in 1..Len(options) : \E w \in words : contains(w, options[k].option_text)

\* first position (1-based) among hits, 0 if none
FirstTable(hits) ==
    IF hits # {} THEN CHOOSE k \in hits : \A j \in hits : k <= j ELSE 0

IsCardTable(options) ==
    options # <<>> /\ AnyOptionText(options, {kw_creditcard, kw_Mastercard, kw_Visa})

IsAmountTable(options) ==
    /\ options # <<>>
    /\ AnyOptionText(options, {kw_hkd, kw_yuan})
    /\ ~AnyOptionText(options, {kw_bank, kw_creditcard})

Bind(k) == [raised |-> FALSE, bind |-> k]

Unbound == [raised |-> FALSE, bind |-> 0]

IndexError == [raised |-> TRUE, bind |-> 0]

\* the positional default: table_index = index - 1 (0-based), so the list is
\* topts[index]; positions below are 1-based
DefaultAssign(index, topts) ==
    LET n == Len(topts)
        forward == { k \in (index + 1)..n : topts[k] # <<>> }
        backward == { k \in 1..(index - 1) : k <= n /\ topts[k] # <<>> }
    IN  IF index <= n /\ topts[index] # <<>> THEN Bind(index)
        ELSE IF forward # {} THEN Bind(CHOOSE k \in forward : \A j \in forward : k <= j)
        \* range(table_index - 1, -1, -1) starts at 0-based index - 2, read
        \* without a bounds check
        ELSE IF index - 1 >= 1 /\ index - 1 > n THEN IndexError
        ELSE IF backward # {} THEN Bind(CHOOSE k \in backward : \A j \in backward : k >= j)
        ELSE Unbound

\* faulty variant of _assign_table_options: the age rule without a second
\* list goes on to the positional default
_assign_table_options_AgeFallsThrough(question, topts) ==
    LET text == question.question_text
        question_text == lower(text)
        n == Len(topts)
    IN  IF text = EmptyStr THEN Unbound
        ELSE IF contains(kw_gender, text) THEN (IF n > 0 THEN Bind(1) ELSE Unbound)
        ELSE IF contains(kw_age, text) THEN (IF n > 1 THEN Bind(2) ELSE DefaultAssign(question.index, topts))
        ELSE IF contains(kw_residency, text) THEN (IF n > 2 THEN Bind(3) ELSE Unbound)
        ELSE IF contains(kw_creditcard, text) /\ contains(kw_holds_any, text)
             THEN (IF n > 3 THEN Bind(4) ELSE Unbound)
        ELSE IF contains(kw_occupation, text)
             THEN (IF question.index = 5 /\ n > 4 THEN Bind(5)
                   ELSE IF question.index = 6 /\ n > 5 THEN Bind(6)
                   ELSE Unbound)
        ELSE IF contains(kw_annual_income, text) THEN (IF n > 6 THEN Bind(7) ELSE Unbound)
        ELSE IF contains(kw_bank, text) THEN (IF n > 0 THEN Bind(n) ELSE Unbound)
        ELSE IF contains(kw_creditcard, text) /\ contains(kw_holds_which, text)
             THEN Bind(FirstTable({k \in 1..Len(topts) : IsCardTable(topts[k])}))
        ELSE IF contains(kw_mmpower, question_text) \/ contains(kw_mastercard, question_text)
             THEN (IF contains(kw_when_obtained, text) \/ contains(kw_when, question_text)
                   THEN (IF n > 9 THEN Bind(10) ELSE Unbound)
                   ELSE (IF 0 <= question.index - 2 /\ question.index - 2 < n
                         THEN Bind(question.index - 1) ELSE Unbound))
        ELSE IF contains(kw_spending, text) \/ contains(kw_expense, text)
             THEN Bind(FirstTable({k \in 1..Len(topts) : IsAmountTable(topts[k])}))
        ELSE DefaultAssign(question.index, topts)

\* which list _assign_table_options binds (bind = 0: question_options is left
\* as it is), or that it raises
_assign_table_options(question, topts) ==
    LET text == question.question_text
        question_text == lower(text)
        n == Len(topts)
    IN  IF text = EmptyStr THEN Unbound
        ELSE IF contains(kw_gender, text) THEN (IF n > 0 THEN Bind(1) ELSE Unbound)
        ELSE IF contains(kw_age, text) THEN (IF n > 1 THEN Bind(2) ELSE Unbound)
        ELSE IF contains(kw_residency, text) THEN (IF n > 2 THEN Bind(3) ELSE Unbound)
        ELSE IF contains(kw_creditcard, text) /\ contains(kw_holds_any, text)
             THEN (IF n > 3 THEN Bind(4) ELSE Unbound)
        ELSE IF contains(kw_occupation, text)
             THEN (IF question.index = 5 /\ n > 4 THEN Bind(5)
                   ELSE IF question.index = 6 /\ n > 5 THEN Bind(6)
                   ELSE Unbound)
        ELSE IF contains(kw_annual_income, text) THEN (IF n > 6 THEN Bind(7) ELSE Unbound)
        ELSE IF contains(kw_bank, text) THEN (IF n > 0 THEN Bind(n) ELSE Unbound)
        ELSE IF contains(kw_creditcard, text) /\ contains(kw_holds_which, text)
             THEN Bind(FirstTable({k \in 1..Len(topts) : IsCardTable(topts[k])}))
        ELSE IF contains(kw_mmpower, question_text) \/ contains(kw_mastercard, question_text)
             THEN (IF contains(kw_when_obtained, text) \/ contains(kw_when, question_text)
                   THEN (IF n > 9 THEN Bind(10) ELSE Unbound)
                   ELSE (IF 0 <= question.index - 2 /\ question.index - 2 < n
                         THEN Bind(question.index - 1) ELSE Unbound))
        ELSE IF contains(kw_spending, text) \/ contains(kw_expense, text)
             THEN Bind(FirstTable({k \in 1..Len(topts) : IsAmountTable(topts[k])}))
        ELSE DefaultAssign(question.index, topts)

\* the question after an assignment that did not raise
Assigned(question, a) ==
    IF a.bind = 0 THEN question ELSE [question EXCEPT !.options_ref = a.bind]

(***************************************************************************)
(* Question-Type Classifier: fallback                                      *)
(***************************************************************************)

WindowBefore == 5

WindowAfter == 10

\* faulty variant of _infer_question_type_from_content: the multi-select cue
\* is tested before the quantity keyword
_infer_question_type_from_content_CueFirst(question, topts) ==
    LET question_text == lower(question.question_text)
        options == QuestionOptions(question, topts)
    IN  IF \E keyword \in MultiSelectKeywords : contains(keyword, question_text)
        THEN MultipleAnswers
        ELSE IF \E keyword \in NumericKeywords : contains(keyword, question_text)
        THEN Numeric
        ELSE IF Len(options) = 2
                /\ AnyOptionText(options, {kw_male, kw_female})
        THEN SingleAnswer
        ELSE IF Len(options) > 2
                /\ \A k \in 1..Len(options) : strip(options[k].option_text) # EmptyStr
        THEN SingleAnswer
        ELSE question.question_type

_infer_question_type_from_content(question, topts) ==
    LET question_text == lower(question.question_text)
        options == QuestionOptions(question, topts)
    IN  IF \E keyword \in NumericKeywords : contains(keyword, question_text)
        THEN Numeric
        ELSE IF \E keyword \in MultiSelectKeywords : contains(keyword, question_text)
        THEN MultipleAnswers
        ELSE IF Len(options) = 2
                /\ AnyOptionText(options, {kw_male, kw_female})
        THEN SingleAnswer
        ELSE IF Len(options) > 2
                /\ \A k \in 1..Len(options) : strip(options[k].option_text) # EmptyStr
        THEN SingleAnswer
        ELSE question.question_type

Min(a, b) == IF a <= b THEN a ELSE b

Max(a, b) == IF a >= b THEN a ELSE b

\* the question_type _find_question_type_comprehensive leaves in the question
_find_question_type_comprehensive(question, paras, topts) ==
    LET question_text == question.question_text
        hits == { k \in 1..Len(paras) : contains(question_text, paras[k]) }
        i == CHOOSE k \in hits : \A j \in hits : k <= j
        \* 0-based range(max(0, i - 5), min(len, i + 10)), as 1-based positions
        window == Max(1, i - WindowBefore)..Min(Len(paras), i + WindowAfter - 1)
        found == { j \in window : strip(paras[j]) # EmptyStr /\ _is_question_type(strip(paras[j])) }
    IN  IF question_text = EmptyStr THEN question.question_type
        ELSE IF hits # {} /\ found # {}
        THEN question_type_group1(strip(paras[CHOOSE j \in found : \A k \in found : j <= k]))
        ELSE _infer_question_type_from_content(question, topts)

(***************************************************************************)
(* XML Emitter                                                             *)
(***************************************************************************)

\* str.replace(c, w) for a one-character c
RECURSIVE Replace(_, _, _)
Replace(s, c, w) ==
    IF s = <<>> THEN <<>>
    ELSE (IF Head(s) = c THEN w ELSE <<Head(s)>>) \o Replace(Tail(s), c, w)

escape_xml_text(text) ==
    IF text = EmptyStr THEN EmptyStr
    ELSE LET t1 == Replace(text, "&", <<"&", "a", "m", "p", ";">>)
             t2 == Replace(t1, "<", <<"&", "l", "t", ";">>)
             t3 == Replace(t2, ">", <<"&", "g", "t", ";">>)
             t4 == Replace(t3, "\"", <<"&", "q", "u", "o", "t", ";">>)
         IN  Replace(t4, "'", <<"&", "a", "p", "o", "s", ";">>)

\* a child element: tag, attributes in the order they were set, text
Child(tag, attrs, text) == [tag |-> tag, attrs |-> attrs, text |-> text]

\* a top-level element of the container
Element(tag, attrs, children) == [tag |-> tag, attrs |-> attrs, children |-> children]

SingleRow(option) ==
    Child("row", << <<"label", <<"r">> \o option.option_code>>,
                    <<"value", option.option_code>> >>,
          escape_xml_text(option.option_text))

\* faulty variant of MultipleRow: the row is built as a single-choice row
MultipleRow_WithValue(option) == SingleRow(option)

MultipleRow(option) ==
    Child("row", << <<"label", <<"r">> \o option.option_code>> >>,
          escape_xml_text(option.option_text))

generate_single_answer_xml(question) ==
    Element("radio", << <<"label", question.question_id>> >>,
            << Child("title", <<>>, escape_xml_text(question.question_text)),
               Child("comment", <<>>,
                     <<"$", "{", "r", "e", "s", ".", "S", "C", "I", "n", "s", "t", "}">>) >>
            \o [k \in 1..Len(question.question_options) |->
                    SingleRow(question.question_options[k])])

generate_multiple_answers_xml(question) ==
    Element("checkbox", << <<"label", question.question_id>>, <<"atleast", <<"1">> >> >>,
            << Child("title", <<>>, escape_xml_text(question.question_text)),
               Child("comment", <<>>,
                     <<"$", "{", "r", "e", "s", ".", "M", "R", "I", "n", "s", "t", "}">>) >>
            \o [k \in 1..Len(question.question_options) |->
                    MultipleRow(question.question_options[k])])

generate_numeric_xml(question) ==
    Element("number", << <<"label", question.question_id>>, <<"optional", <<"0">> >>,
                         <<"size", <<"2", "0">> >>,
                         <<"verify", <<"r", "a", "n", "g", "e", "(", "0", ",", "9", "9", ")">> >> >>,
            << Child("title", <<>>, escape_xml_text(question.question_text)) >>)

Suspend == Element("suspend", <<>>, <<>>)

\* list.sort(key=index): a stable insertion sort
RECURSIVE InsertByIndex(_, _)
InsertByIndex(sorted, q) ==
    IF sorted = <<>> THEN <<q>>
    ELSE IF sorted[Len(sorted)].index <= q.index THEN Append(sorted, q)
    ELSE Append(InsertByIndex(SubSeq(sorted, 1, Len(sorted) - 1), q), sorted[Len(sorted)])

RECURSIVE SortByIndex(_)
SortByIndex(qs) ==
    IF qs = <<>> THEN <<>>
    ELSE InsertByIndex(SortByIndex(SubSeq(qs, 1, Len(qs) - 1)), qs[Len(qs)])

ZeroCount == [single |-> 0, multiple |-> 0, numeric |-> 0, unknown |-> 0]

\* character data as ET.tostring and minidom's toprettyxml write it: the
\* markup characters of the element text are replaced by their entities
write_text(s) ==
    LET t1 == Replace(s, "&", <<"&", "a", "m", "p", ";">>)
        t2 == Replace(t1, "<", <<"&", "l", "t", ";">>)
        t3 == Replace(t2, "\"", <<"&", "q", "u", "o", "t", ";">>)
    IN  Replace(t3, ">", <<"&", "g", "t", ";">>)

\* an element of the container as it stands in the written document: the
\* same tags and attribute names, texts and attribute values as written
WrittenChild(c) ==
    [tag |-> c.tag,
     attrs |-> [k \in 1..Len(c.attrs) |-> <<c.attrs[k][1], write_text(c.attrs[k][2])>>],
     text |-> write_text(c.text)]

WrittenElement(e) ==
    [tag |-> e.tag,
     attrs |-> [k \in 1..Len(e.attrs) |-> <<e.attrs[k][1], write_text(e.attrs[k][2])>>],
     children |-> [k \in 1..Len(e.children) |-> WrittenChild(e.children[k])]]

\* the document written to xml_file_path: the children of <survey> in order
pretty_xml(root_) == [k \in 1..Len(root_) |-> WrittenElement(root_[k])]

(***************************************************************************)
(* Inputs                                                                  *)
(***************************************************************************)

\* longest paragraph sequence of a document
MaxParas == 3

\* paragraphs as the document reader yields them: not blank, not stripped
P_AskAll == <<"A", "S", "K", " ", "A", "L", "L", " ">>
P_HowOld == <<"2", ".", "3", " ", "H", "o", "w", " ", "o", "l", "d", " ", "a", "r", "e", " ", "y", "o", "u", "?">>
P_Age == <<"2", ".", "3", " ", "U+60A8", "U+7684", "U+5E74", "U+9F84", "U+662F", "?">>
P_Single == <<"S", "i", "n", "g", "l", "e", " ", "A", "n", "s", "w", "e", "r">>
P_Multiples == <<"M", "u", "l", "t", "i", "p", "l", "e", " ", "A", "n", "s", "w", "e", "r", "s">>
P_Multiple == <<"M", "u", "l", "t", "i", "p", "l", "e", " ", "A", "n", "s", "w", "e", "r">>
P_Numeric == <<"N", "u", "m", "e", "r", "i", "c">>
P_Male1 == <<"M", "a", "l", "e", " ", "1">>
P_YourName == <<"Y", "o", "u", "r", " ", "n", "a", "m", "e">>

Vocabulary ==
    { P_AskAll, P_HowOld, P_Age, P_Single, P_Multiples, P_Multiple, P_Numeric,
      P_Male1, P_YourName }

Docs == UNION { [1..n -> Vocabulary] : n \in 0..MaxParas }

\* table grids: rows of cell texts
T_Gender == << << <<"U+7537">>, <<"1">> >>, << <<"U+5973">>, <<"2">> >> >>
T_Three == << << <<"A">>, <<"1">>, <<"B">>, <<"2">> >>, << <<"C">>, <<"3">> >> >>
T_Blank == << << <<>> >>, << <<"1", "2">> >> >>

TableDocs == { <<>>, <<T_Gender>>, <<T_Blank, T_Gender, T_Three>> }

VARIABLES
    word_paragraphs,   \* word_content["content"]["paragraphs"] texts
    tables,            \* word_content["content"]["tables"] grids
    paragraphs,        \* parse_survey_document: the stripped paragraphs
    table_options,     \* the extractor's lists (shared list objects)
    questions,         \* _parse_questions: questions
    current_question,  \* _parse_questions: current_question (NoQuestion: None)
    question_index,    \* _parse_questions: question_index
    i,                 \* _parse_questions: i, 1-based
    pc,                \* where the run is
    parse_result,      \* "none", "ok" (a record collection), "error"
    json_exists,       \* the structured JSON file exists
    json_questions,    \* its "questions"
    root,              \* SurveyXMLGenerator.root: the container's children
    xml_questions,     \* generate_xml: questions, sorted
    xi,                \* generate_xml: position in the for loop, 1-based
    processed_count,   \* generate_xml: processed_count
    xml_result,        \* generate_xml's return: "none", "true", "false"
    xml_file,          \* the children of the container written to the XML file
    calls,             \* generate_xml calls started on this generator
    outputs,           \* what each finished run left: the records and the document
    conversion_tasks,  \* web_app: keys of the conversion_tasks dict
    task,              \* web_app: the ConversionTask objects, by task id
    disk,              \* web_app: output directory, result files, uploaded file by task id
    worker,            \* web_app: position and locals of each perform_conversion thread
    download,          \* web_app: the download_file request in progress
    clear,             \* web_app: the clear_task request in progress
    response,          \* web_app: what the last finished request returned
    cleared            \* web_app: task ids clear_task has returned success for

vars == <<word_paragraphs, tables, paragraphs, table_options, questions,
          current_question, question_index, i, pc, parse_result, json_exists,
          json_questions, root, xml_questions, xi, processed_count, xml_result,
          xml_file, calls, outputs, conversion_tasks, task, disk, worker, download,
          clear, response, cleared>>

parser_vars == <<paragraphs, table_options, questions, current_question,
                 question_index, i, parse_result>>

xml_vars == <<root, xml_questions, xi, processed_count, xml_result, xml_file, calls>>

input_vars == <<word_paragraphs, tables>>

web_vars == <<conversion_tasks, task, disk, worker, download, clear, response, cleared>>

\* most tasks uploaded
MaxTasks == 1

TaskIds == 1..MaxTasks

\* the keys of result_files
FileTypes == {"json", "xml"}

\* ConversionTask.__init__; made is FALSE until upload_file creates the object
NewTask ==
    [made |-> TRUE, status |-> "pending", progress |-> 0, end_time |-> FALSE,
     result_files |-> {}]

NotMadeTask == [NewTask EXCEPT !.made = FALSE]

\* no request of the kind is in progress
NoRequest == [pc |-> "idle", id |-> 0, type |-> "none"]

NoResponse == [handler |-> "none", id |-> 0, code |-> 0, body |-> "none"]

\* a perform_conversion thread that was not started
NoWorker == [pc |-> "unstarted", status |-> "none", progress |-> 0, next |-> "none",
             success |-> FALSE, seen |-> {}]

\* the web application after import: no task, empty folders
WebStarted ==
    /\ conversion_tasks = {}
    /\ task = [t \in TaskIds |-> NotMadeTask]
    /\ disk = [t \in TaskIds |-> [dir |-> FALSE, files |-> {}, upload |-> FALSE]]
    /\ worker = [t \in TaskIds |-> NoWorker]
    /\ download = NoRequest
    /\ clear = NoRequest
    /\ response = NoResponse
    /\ cleared = {}

\* SurveyParser() and SurveyXMLGenerator() constructed, nothing run yet
Constructed ==
    /\ paragraphs = <<>>
    /\ table_options = <<>>
    /\ questions = <<>>
    /\ current_question = NoQuestion
    /\ question_index = 1
    /\ i = 1
    /\ parse_result = "none"
    /\ root = <<>>
    /\ xml_questions = <<>>
    /\ xi = 1
    /\ processed_count = ZeroCount
    /\ xml_result = "none"
    /\ xml_file = <<>>
    /\ calls = 0
    /\ outputs = <<>>
    /\ WebStarted

Init ==
    /\ word_paragraphs \in Docs
    /\ tables \in TableDocs
    /\ Constructed
    /\ json_exists = FALSE
    /\ json_questions = <<>>
    /\ pc = "start"

(***************************************************************************)
(* parse_survey_document and _parse_questions, one action per paragraph    *)
(***************************************************************************)

\* the non-empty stripped paragraph texts
RECURSIVE StrippedParagraphs(_)
StrippedParagraphs(ps) ==
    IF ps = <<>> THEN <<>>
    ELSE (IF strip(Head(ps)) # EmptyStr THEN <<strip(Head(ps))>> ELSE <<>>)
         \o StrippedParagraphs(Tail(ps))

\* parse_survey_document up to the call of _parse_questions
ParseStart ==
    /\ pc = "start"
    /\ paragraphs' = StrippedParagraphs(word_paragraphs)
    /\ table_options' = _extract_table_options(tables)
    /\ pc' = "scan"
    /\ UNCHANGED <<input_vars, web_vars, outputs, questions, current_question, question_index, i,
                   parse_result, json_exists, json_questions, xml_vars>>

\* para = paragraphs[i].strip()
Para == strip(paragraphs[i])

\* how far after the question text the lookahead searches a type marker
TypeLookahead == 3

\* the lookahead's next_i: the first later paragraph that is not empty and not
\* an answer-logic marker; 0 when there is none
NextTextPos(paras, pos) ==
    LET cands == { k \in (pos + 1)..Len(paras) :
                     strip(paras[k]) # EmptyStr /\ ~_is_answer_logic(strip(paras[k])) }
    IN  IF cands = {} THEN 0 ELSE CHOOSE k \in cands : \A j \in cands : k <= j

\* question_id and question_text taken from the lookahead paragraph
WithText(q, next_para) ==
    IF question_number_matches(next_para)
    THEN [q EXCEPT !.question_id = _generate_question_id(question_number_group1(next_para)),
                   !.question_text = strip(question_number_group2(next_para))]
    ELSE LET question_text == _clean_question_text(next_para)
         IN  IF question_text # EmptyStr /\ ~_is_question_type(question_text)
             THEN [q EXCEPT !.question_text = question_text,
                            !.question_id = <<"Q", "1", "x">> \o DecimalStr(q.index)]
             ELSE q

\* the type marker found in the paragraphs after the question text
WithLookaheadType(q, paras, next_i) ==
    LET cands == { k \in (next_i + 1)..Min(Len(paras), next_i + TypeLookahead - 1) :
                     strip(paras[k]) # EmptyStr /\ _is_question_type(strip(paras[k])) }
    IN  IF cands = {} THEN q
        ELSE [q EXCEPT !.question_type =
                 question_type_group1(strip(paras[CHOOSE k \in cands : \A j \in cands : k <= j]))]

\* the type fallback run before a question is appended
WithFallbackType(q, paras, topts) ==
    IF q.question_type = EmptyStr
    THEN [q EXCEPT !.question_type = _find_question_type_comprehensive(q, paras, topts)]
    ELSE q

\* faulty variant of FinalizedAtMarker: the type fallback is left out
FinalizedAtMarker_NoFallback(q, paras, topts) == q

\* the question appended when a new answer-logic marker is seen
FinalizedAtMarker(q, paras, topts) == WithFallbackType(q, paras, topts)

\* the assignment made at the end of the paragraphs: only for a question
\* whose options are empty
EndAssignment(q, topts) ==
    IF q # NoQuestion /\ QuestionOptions(q, topts) = <<>>
    THEN _assign_table_options(q, topts)
    ELSE Unbound

\* the question appended at the end of the paragraphs
FinalizedAtEnd(q, paras, topts) ==
    WithFallbackType(Assigned(q, EndAssignment(q, topts)), paras, topts)

\* faulty variant of NextIndex: the counter is not advanced
NextIndex_NotAdvanced(question_index_) == question_index_

\* the counter after a question was given the index question_index_
NextIndex(question_index_) == question_index_ + 1

\* an answer-logic marker: the question in progress is appended, a new one
\* is started and its text and type are looked up ahead
AnswerLogicStep ==
    /\ pc = "scan"
    /\ i <= Len(paragraphs)
    /\ _is_answer_logic(Para)
    /\ LET q0 == NewQuestion(question_index, Para)
           next_i == NextTextPos(paragraphs, i)
           q1 == IF next_i = 0 THEN q0 ELSE WithText(q0, strip(paragraphs[next_i]))
           a == _assign_table_options(q1, table_options)
           q2 == IF next_i = 0 THEN q0
                 ELSE WithLookaheadType(Assigned(q1, a), paragraphs, next_i)
       IN  /\ questions' = IF current_question # NoQuestion
                           THEN Append(questions,
                                       FinalizedAtMarker(current_question, paragraphs, table_options))
                           ELSE questions
           /\ question_index' = NextIndex(question_index)
           /\ IF a.raised
              THEN /\ current_question' = q1
                   /\ pc' = "parse_error"
                   /\ parse_result' = "error"
                   /\ i' = i
              ELSE /\ current_question' = q2
                   /\ pc' = pc
                   /\ parse_result' = parse_result
                   /\ i' = i + 1
    /\ UNCHANGED <<input_vars, web_vars, outputs, paragraphs, table_options, json_exists, json_questions, xml_vars>>

\* a type marker while a question is in progress
QuestionTypeStep ==
    /\ pc = "scan"
    /\ i <= Len(paragraphs)
    /\ ~_is_answer_logic(Para)
    /\ _is_question_type(Para)
    /\ current_question # NoQuestion
    /\ LET q1 == [current_question EXCEPT !.question_type = question_type_group1(Para)]
           a == _assign_table_options(q1, table_options)
           q2 == Assigned(q1, a)
           q3 == IF /\ q2.question_text # EmptyStr
                    /\ contains(kw_bank, q2.question_text)
                    /\ contains(kw_Multiple, Para)
                    /\ Len(table_options) > 0
                 THEN [q2 EXCEPT !.options_ref = Len(table_options)]
                 ELSE q2
       IN  IF a.raised
           THEN /\ current_question' = q1
                /\ pc' = "parse_error"
                /\ parse_result' = "error"
                /\ i' = i
           ELSE /\ current_question' = q3
                /\ pc' = pc
                /\ parse_result' = parse_result
                /\ i' = i + 1
    /\ UNCHANGED <<input_vars, web_vars, outputs, paragraphs, table_options, questions, question_index,
                   json_exists, json_questions, xml_vars>>

\* an inline option line while a question is in progress: appended to the
\* list object question_options refers to
OptionStep ==
    /\ pc = "scan"
    /\ i <= Len(paragraphs)
    /\ ~_is_answer_logic(Para)
    /\ ~_is_question_type(Para)
    /\ _is_option(Para)
    /\ current_question # NoQuestion
    /\ IF current_question.options_ref = 0
       THEN /\ current_question' =
                  [current_question EXCEPT !.own_options = Append(@, _parse_option(Para))]
            /\ table_options' = table_options
       ELSE /\ table_options' =
                  [table_options EXCEPT ![current_question.options_ref] =
                       Append(@, _parse_option(Para))]
            /\ current_question' = current_question
    /\ i' = i + 1
    /\ UNCHANGED <<input_vars, web_vars, outputs, paragraphs, questions, question_index, pc, parse_result,
                   json_exists, json_questions, xml_vars>>

\* any other paragraph
IgnoreStep ==
    /\ pc = "scan"
    /\ i <= Len(paragraphs)
    /\ ~_is_answer_logic(Para)
    /\ ~(_is_question_type(Para) /\ current_question # NoQuestion)
    /\ ~(_is_option(Para) /\ current_question # NoQuestion)
    /\ i' = i + 1
    /\ UNCHANGED <<input_vars, web_vars, outputs, paragraphs, table_options, questions, current_question,
                   question_index, pc, parse_result, json_exists, json_questions, xml_vars>>

\* a question record as json.dump writes it
JsonQuestion(q, topts) ==
    [index |-> q.index, answer_logic |-> q.answer_logic, question_id |-> q.question_id,
     question_text |-> q.question_text, question_type |-> q.question_type,
     question_options |-> QuestionOptions(q, topts)]

JsonQuestions(qs, topts) == [k \in 1..Len(qs) |-> JsonQuestion(qs[k], topts)]

\* the end of the paragraphs: the last question is finalized and appended,
\* _parse_questions returns and parse_survey_document saves the result
EndOfStream ==
    /\ pc = "scan"
    /\ i > Len(paragraphs)
    /\ LET a == EndAssignment(current_question, table_options)
           qs == IF current_question # NoQuestion
                 THEN Append(questions, FinalizedAtEnd(current_question, paragraphs, table_options))
                 ELSE questions
       IN  IF a.raised
           THEN /\ pc' = "parse_error"
                /\ parse_result' = "error"
                /\ UNCHANGED <<questions, current_question, json_exists, json_questions>>
           ELSE /\ questions' = qs
                /\ current_question' = NoQuestion
                /\ pc' = "parsed"
                /\ parse_result' = "ok"
                /\ json_exists' = TRUE
                /\ json_questions' = JsonQuestions(qs, table_options)
    /\ UNCHANGED <<input_vars, web_vars, outputs, paragraphs, table_options, question_index, i, xml_vars>>

(***************************************************************************)
(* SurveyXMLGenerator.generate_xml, one action per question                *)
(***************************************************************************)

\* the call up to the for loop; a missing JSON file raises and the call
\* returns False
XmlStart ==
    /\ pc \in {"parsed", "parse_error"}
    /\ calls' = calls + 1
    /\ IF json_exists
       THEN /\ xml_questions' = SortByIndex(json_questions)
            /\ processed_count' = ZeroCount
            /\ xi' = 1
            /\ pc' = "emit"
            /\ xml_result' = "none"
       ELSE /\ pc' = "done"
            /\ xml_result' = "false"
            /\ UNCHANGED <<xml_questions, processed_count, xi>>
    /\ UNCHANGED <<input_vars, web_vars, outputs, parser_vars, json_exists, json_questions, root, xml_file>>

\* self.root.append(element); self.root.append(suspend)
Emitted(root_, element) == root_ \o <<element, Suspend>>

XmlEmitSingle ==
    /\ pc = "emit"
    /\ xi <= Len(xml_questions)
    /\ xml_questions[xi].question_type = SingleAnswer
    /\ root' = Emitted(root, generate_single_answer_xml(xml_questions[xi]))
    /\ processed_count' = [processed_count EXCEPT !.single = @ + 1]
    /\ xi' = xi + 1
    /\ UNCHANGED <<input_vars, web_vars, outputs, parser_vars, json_exists, json_questions, pc,
                   xml_questions, xml_result, xml_file, calls>>

XmlEmitMultiple ==
    /\ pc = "emit"
    /\ xi <= Len(xml_questions)
    /\ xml_questions[xi].question_type = MultipleAnswers
    /\ root' = Emitted(root, generate_multiple_answers_xml(xml_questions[xi]))
    /\ processed_count' = [processed_count EXCEPT !.multiple = @ + 1]
    /\ xi' = xi + 1
    /\ UNCHANGED <<input_vars, web_vars, outputs, parser_vars, json_exists, json_questions, pc,
                   xml_questions, xml_result, xml_file, calls>>

XmlEmitNumeric ==
    /\ pc = "emit"
    /\ xi <= Len(xml_questions)
    /\ xml_questions[xi].question_type = Numeric
    /\ root' = Emitted(root, generate_numeric_xml(xml_questions[xi]))
    /\ processed_count' = [processed_count EXCEPT !.numeric = @ + 1]
    /\ xi' = xi + 1
    /\ UNCHANGED <<input_vars, web_vars, outputs, parser_vars, json_exists, json_questions, pc,
                   xml_questions, xml_result, xml_file, calls>>

\* the types generate_xml emits an element for
EmittedTypes == {SingleAnswer, MultipleAnswers, Numeric}

\* faulty variant of XmlSkipUnknown: the terminator is appended before the type test
XmlSkipUnknown_Terminator ==
    /\ pc = "emit"
    /\ xi <= Len(xml_questions)
    /\ xml_questions[xi].question_type \notin EmittedTypes
    /\ root' = Append(root, Suspend)
    /\ processed_count' = [processed_count EXCEPT !.unknown = @ + 1]
    /\ xi' = xi + 1
    /\ UNCHANGED <<input_vars, web_vars, outputs, parser_vars, json_exists, json_questions, pc,
                   xml_questions, xml_result, xml_file, calls>>

\* any other type: counted as Unknown and skipped
XmlSkipUnknown ==
    /\ pc = "emit"
    /\ xi <= Len(xml_questions)
    /\ xml_questions[xi].question_type \notin EmittedTypes
    /\ processed_count' = [processed_count EXCEPT !.unknown = @ + 1]
    /\ xi' = xi + 1
    /\ UNCHANGED <<input_vars, web_vars, outputs, parser_vars, json_exists, json_questions, pc, root,
                   xml_questions, xml_result, xml_file, calls>>

\* after the loop: the container is serialized and written; the file holds
\* the container's children
XmlFinish ==
    /\ pc = "emit"
    /\ xi > Len(xml_questions)
    /\ xml_file' = pretty_xml(root)
    /\ xml_result' = "true"
    /\ pc' = "done"
    /\ outputs' = Append(outputs, [json |-> json_questions, xml |-> xml_file'])
    /\ UNCHANGED <<input_vars, web_vars, parser_vars, json_exists, json_questions, root,
                   xml_questions, xi, processed_count, calls>>

\* SurveyConverter.convert has returned: generate_xml was its last step, and
\* neither its return value nor the one of parse_survey_document is looked at
convert_returned == pc = "done"

\* result['success'] of convert: no exception leaves the steps (the parser
\* and the generator catch their own and return an error value), so the
\* try block ends at 'success': True
convert_success == TRUE

\* one conversion run: survey_converter.py main / web_app.py perform_conversion
Next ==
    \/ ParseStart
    \/ AnswerLogicStep
    \/ QuestionTypeStep
    \/ OptionStep
    \/ IgnoreStep
    \/ EndOfStream
    \/ XmlStart
    \/ XmlEmitSingle
    \/ XmlEmitMultiple
    \/ XmlEmitNumeric
    \/ XmlSkipUnknown
    \/ XmlFinish

Spec == Init /\ [][Next]_vars

(***************************************************************************)
(* A SurveyXMLGenerator object alone: generate_xml called on a JSON file   *)
(* of question records, and called again on the same object                *)
(***************************************************************************)

\* most question records in a JSON file
MaxQuestions == 2

\* most generate_xml calls on one generator
MaxCalls == 2

X_Text == <<"a", "<", "&", "\"">>

X_Options ==
    << [option_code |-> <<"1">>, option_text |-> <<"x", "&", "y">>],
       [option_code |-> <<"2">>, option_text |-> <<"U+5973">>] >>

XmlTypes == {EmptyStr, SingleAnswer, MultipleAnswers, Numeric, P_Multiple}

\* index values of the records in the JSON file; equal and descending
\* indexes occur
XmlIndexes == {1, 2}

XmlQuestions ==
    { [index |-> n, answer_logic |-> strip(P_AskAll),
       question_id |-> <<"Q", "1", "x">> \o DecimalStr(n), question_text |-> X_Text,
       question_type |-> ty, question_options |-> os] :
         n \in XmlIndexes, ty \in XmlTypes, os \in {<<>>, X_Options} }

JsonInputs == UNION { [1..n -> XmlQuestions] : n \in 0..MaxQuestions }

InitXml ==
    /\ word_paragraphs = <<>>
    /\ tables = <<>>
    /\ Constructed
    /\ json_exists = TRUE
    /\ json_questions \in JsonInputs
    /\ pc = "parsed"

\* the caller calls generate_xml again on the same generator and file
XmlAgain ==
    /\ pc = "done"
    /\ calls < MaxCalls
    /\ pc' = "parsed"
    /\ UNCHANGED <<input_vars, web_vars, outputs, parser_vars, json_exists, json_questions, xml_vars>>

NextXml ==
    \/ XmlStart
    \/ XmlEmitSingle
    \/ XmlEmitMultiple
    \/ XmlEmitNumeric
    \/ XmlSkipUnknown
    \/ XmlFinish
    \/ XmlAgain

SpecXml == InitXml /\ [][NextXml]_vars

(***************************************************************************)
(* The table-option extractor on its own: grids of every row shape         *)
(***************************************************************************)

\* most rows of the one grid of a document
MaxRows == 2

\* most grids of a document of several grids
MaxTables == 2

\* rows of 0 to 5 cells, with usable and unusable texts and codes
ExtractRows ==
    { <<>>,
      << <<>> >>, << <<"A">> >>, << <<"2">> >>,
      << <<"A">>, <<"1">> >>, << <<"B">>, <<"2">> >>, << <<"A">>, <<>> >>, << <<>>, <<"1">> >>,
      << <<"A">>, <<"1">>, <<"x">> >>,
      << <<"A">>, <<"1">>, <<"B">>, <<"2">> >>, << <<"A">>, <<"1">>, <<"B">>, <<>> >>,
      << <<>>, <<"1">>, <<"B">>, <<"2">> >>, << <<"A">>, <<>>, <<>>, <<"2">> >>,
      << <<"A">>, <<"1">>, <<"B">>, <<"2">>, <<"C">> >> }

ExtractDocs ==
    { <<g>> : g \in UNION { [1..n -> ExtractRows] : n \in 0..MaxRows } }
    \cup UNION { [1..n -> {T_Blank, T_Gender, T_Three}] : n \in 0..MaxTables }

InitExtract ==
    /\ word_paragraphs = <<>>
    /\ tables \in ExtractDocs
    /\ Constructed
    /\ json_exists = FALSE
    /\ json_questions = <<>>
    /\ pc = "start"

NextExtract == ParseStart

SpecExtract == InitExtract /\ [][NextExtract]_vars

(***************************************************************************)
(* Segmentation of documents with a type marker at a distance from the     *)
(* question text, outside the question's own paragraphs                    *)
(***************************************************************************)

\* greatest distance of a type marker before the question text
MaxBefore == 6

\* greatest distance of a type marker after the question text
MaxAfter == 10

\* n paragraphs that are neither marker, type, option nor the question text
Fillers(n) == [k \in 1..n |-> P_HowOld]

\* the question "Your name" with the type marker mb at b paragraphs before
\* its text (before the answer-logic marker) and the type marker ma at a
\* paragraphs after it (after the next answer-logic marker, and beyond the
\* lookahead of the question); 0: no marker
WindowDoc(b, mb, a, ma) ==
    (IF b = 0 THEN <<>> ELSE <<mb>> \o Fillers(b - 2))
    \o <<P_AskAll, P_YourName>>
    \o (IF a = 0 THEN <<>> ELSE Fillers(a - 2) \o <<P_AskAll, ma>>)

WindowDocs ==
    { WindowDoc(b, mb, a, ma) :
        b \in {0} \cup 2..MaxBefore, mb \in {P_Single, P_Numeric},
        a \in {0} \cup 3..MaxAfter, ma \in {P_Single, P_Numeric} }

InitWindow ==
    /\ word_paragraphs \in WindowDocs
    /\ tables = <<>>
    /\ Constructed
    /\ json_exists = FALSE
    /\ json_questions = <<>>
    /\ pc = "start"

NextWindow ==
    \/ ParseStart
    \/ AnswerLogicStep
    \/ QuestionTypeStep
    \/ IgnoreStep
    \/ EndOfStream

SpecWindow == InitWindow /\ [][NextWindow]_vars

(***************************************************************************)
(* Segmentation of one question without a type marker: the type comes from *)
(* the content of the question                                             *)
(***************************************************************************)

\* "<multi-select>": a multi-select cue
Q_Cue == <<"U+591A", "U+9009">>

\* "<income>": a quantity keyword
Q_Income == <<"U+6536", "U+5165">>

\* "<age><multi-select>": a quantity keyword and a multi-select cue
Q_AgeCue == <<"U+5E74", "U+9F84", "U+591A", "U+9009">>

\* "<which ones>": another multi-select cue
Q_Which == <<"U+54EA", "U+4E9B">>

InferTexts == { P_YourName, P_HowOld, Q_Cue, Q_Income, Q_AgeCue, Q_Which }

\* grids of one option, of two options that are no gender pair, and of a
\* male option with another one
T_One == << << <<"A">>, <<"1">> >> >>
T_Two == << << <<"A">>, <<"1">> >>, << <<"B">>, <<"2">> >> >>
T_MaleOther == << << <<"U+7537">>, <<"1">> >>, << <<"B">>, <<"2">> >> >>

InferTables ==
    { <<>>, <<T_One>>, <<T_Two>>, <<T_Gender>>, <<T_MaleOther>>, <<T_Three>>,
      <<T_One, T_Three>> }

InitInfer ==
    /\ word_paragraphs \in { <<P_AskAll, text>> : text \in InferTexts }
    /\ tables \in InferTables
    /\ Constructed
    /\ json_exists = FALSE
    /\ json_questions = <<>>
    /\ pc = "start"

NextInfer ==
    \/ ParseStart
    \/ AnswerLogicStep
    \/ IgnoreStep
    \/ EndOfStream

SpecInfer == InitInfer /\ [][NextInfer]_vars

(***************************************************************************)
(* Documents for a second assignment attempt: a question whose text has    *)
(* the spending, the bank or no keyword, followed by inline option lines   *)
(* and type markers, over grids of amounts                                 *)
(***************************************************************************)

\* "<spending>": bound to the first grid of amounts
Q_Spend == <<"U+6D88", "U+8D39">>

\* "<bank>": bound to the last grid
Q_Bank == <<"U+94F6", "U+884C">>

\* inline option line "<credit card> 3"
P_Card3 == <<"U+4FE1", "U+7528", "U+5361", " ", "3">>

\* grids with one amount each: "100<yuan>" and "200<yuan>"
T_Amount1 == << << <<"1", "0", "0", "U+5143">>, <<"1">> >> >>
T_Amount2 == << << <<"2", "0", "0", "U+5143">>, <<"1">> >> >>

RebindTexts == { Q_Spend, Q_Bank, P_YourName }

RebindLines == { P_Card3, P_Male1, P_Single, P_Multiples }

RebindTables == { <<>>, <<T_Amount1>>, <<T_Amount1, T_Amount2>>, <<T_Gender, T_Amount1>> }

InitRebind ==
    /\ word_paragraphs \in { <<P_AskAll, text, l1, l2>> :
                                text \in RebindTexts, l1 \in RebindLines, l2 \in RebindLines }
    /\ tables \in RebindTables
    /\ Constructed
    /\ json_exists = FALSE
    /\ json_questions = <<>>
    /\ pc = "start"

NextRebind ==
    \/ ParseStart
    \/ AnswerLogicStep
    \/ QuestionTypeStep
    \/ OptionStep
    \/ IgnoreStep
    \/ EndOfStream

SpecRebind == InitRebind /\ [][NextRebind]_vars

(***************************************************************************)
(* Documents for the rule chain of _assign_table_options: one question     *)
(* whose text holds one or two of the rule keywords, over the first n      *)
(* grids of a fixed sequence                                               *)
(***************************************************************************)

\* most grids of a document; the rule chain addresses up to the tenth list
MaxRuleTables == 10

\* the keyword phrases of the rules, in the order of the chain, and a text
\* without keyword
RuleKeys ==
    << kw_gender, kw_age, kw_residency, kw_creditcard \o kw_holds_any, kw_occupation,
       kw_annual_income, kw_bank, kw_creditcard \o kw_holds_which,
       kw_mmpower \o kw_when_obtained, kw_mmpower, kw_spending, <<"x">> >>

RuleTexts == { RuleKeys[a] \o RuleKeys[b] : a, b \in 1..Len(RuleKeys) }

\* option texts of the grids: the third names a card, the fourth an amount
RuleGridTexts ==
    << <<"A">>, <<"B">>, kw_Visa, <<"1", "0", "0", "U+5143">>, <<"E">>, <<"F">>, <<"G">>,
       <<"H">>, <<"I">>, <<"J">>, <<"K">>, <<"L">> >>

RuleGrid(k) == << << RuleGridTexts[k], <<"1">> >> >>

RuleTables == { [k \in 1..n |-> RuleGrid(k)] : n \in 0..MaxRuleTables }

InitRules ==
    /\ word_paragraphs \in { <<P_AskAll, text>> : text \in RuleTexts }
    /\ tables \in RuleTables
    /\ Constructed
    /\ json_exists = FALSE
    /\ json_questions = <<>>
    /\ pc = "start"

NextRules ==
    \/ ParseStart
    \/ AnswerLogicStep
    \/ IgnoreStep
    \/ EndOfStream

SpecRules == InitRules /\ [][NextRules]_vars

(***************************************************************************)
(* SurveyConverter.convert called again on the same converter and document *)
(***************************************************************************)

\* longest document converted more than once
MaxRerunParas == 2

RerunDocs == UNION { [1..n -> Vocabulary] : n \in 0..MaxRerunParas }

InitRerun ==
    /\ word_paragraphs \in RerunDocs
    /\ tables \in TableDocs
    /\ Constructed
    /\ json_exists = FALSE
    /\ json_questions = <<>>
    /\ pc = "start"

\* convert is called again: parse_survey_document and _parse_questions start
\* with fresh locals, the files and self.xml_generator stay as they are
ConvertAgain ==
    /\ pc = "done"
    /\ calls < MaxCalls
    /\ pc' = "start"
    /\ paragraphs' = <<>>
    /\ table_options' = <<>>
    /\ questions' = <<>>
    /\ current_question' = NoQuestion
    /\ question_index' = 1
    /\ i' = 1
    /\ parse_result' = "none"
    /\ UNCHANGED <<input_vars, web_vars, outputs, json_exists, json_questions, xml_vars>>

NextRerun == Next \/ ConvertAgain

SpecRerun == InitRerun /\ [][NextRerun]_vars

(***************************************************************************)
(* web_app: upload_file, the perform_conversion thread of each task, and   *)
(* the status, download and clear requests running beside it               *)
(***************************************************************************)

converter_vars == <<input_vars, parser_vars, pc, json_exists, json_questions, xml_vars, outputs>>

\* file types a download request may name
RequestTypes == {"xml", "raw"}

Terminal == {"completed", "failed"}

Responded(handler, t, code) ==
    [handler |-> handler, id |-> t, code |-> code,
     status |-> "none", progress |-> 0, end_time |-> FALSE]

\* the thread is about to run task.update_status(status, progress, ...) and
\* goes on at next afterwards
Calling(w, status, progress, next) ==
    [w EXCEPT !.pc = "update_status", !.status = status, !.progress = progress,
              !.next = next]

\* upload_file with an accepted file: the task directory and the uploaded
\* file are created, the task is registered and its thread started
Upload(t) ==
    /\ ~task[t].made
    /\ disk' = [disk EXCEPT ![t] = [dir |-> TRUE, files |-> {}, upload |-> TRUE]]
    /\ task' = [task EXCEPT ![t] = NewTask]
    /\ conversion_tasks' = conversion_tasks \cup {t}
    /\ worker' = [worker EXCEPT ![t].pc = "fetch"]
    /\ response' = Responded("upload", t, 200)
    /\ UNCHANGED <<download, clear, cleared, converter_vars>>

\* task = conversion_tasks[task_id], before the try block: a missing key
\* ends the thread with KeyError
WorkerFetch(t) ==
    /\ worker[t].pc = "fetch"
    /\ worker' = IF t \in conversion_tasks
                 THEN [worker EXCEPT ![t] = Calling(@, "processing", 10, "makedirs")]
                 ELSE [worker EXCEPT ![t].pc = "crashed"]
    /\ UNCHANGED <<conversion_tasks, task, disk, download, clear, response, cleared,
                   converter_vars>>

\* update_status: status, progress and message are stored
UpdateStatus(t) ==
    /\ worker[t].pc = "update_status"
    /\ task' = [task EXCEPT ![t].status = worker[t].status,
                            ![t].progress = worker[t].progress]
    /\ worker' = [worker EXCEPT ![t].pc = IF worker[t].status \in Terminal
                                          THEN "update_end_time" ELSE worker[t].next]
    /\ UNCHANGED <<conversion_tasks, disk, download, clear, response, cleared, converter_vars>>

\* update_status: self.end_time = datetime.now() for a final status
UpdateEndTime(t) ==
    /\ worker[t].pc = "update_end_time"
    /\ task' = [task EXCEPT ![t].end_time = TRUE]
    /\ worker' = [worker EXCEPT ![t].pc = worker[t].next]
    /\ UNCHANGED <<conversion_tasks, disk, download, clear, response, cleared, converter_vars>>

\* os.makedirs(output_dir, exist_ok=True) and SurveyConverter()
WorkerMakeDirs(t) ==
    /\ worker[t].pc = "makedirs"
    /\ disk' = [disk EXCEPT ![t].dir = TRUE]
    /\ worker' = [worker EXCEPT ![t] = Calling(@, "processing", 30, "convert")]
    /\ UNCHANGED <<conversion_tasks, task, download, clear, response, cleared, converter_vars>>

\* converter.convert: without the uploaded file it returns success False;
\* else it makes the output directory and returns convert_success, with the
\* two files written when the parse step succeeded and none when it failed
WorkerConvert(t) ==
    /\ worker[t].pc = "convert"
    /\ IF ~disk[t].upload
       THEN /\ disk' = disk
            /\ worker' = [worker EXCEPT ![t] =
                             Calling([@ EXCEPT !.success = FALSE], "processing", 80, "check")]
       ELSE \E parsed \in BOOLEAN :
              /\ disk' = [disk EXCEPT ![t].dir = TRUE,
                                      ![t].files = IF parsed THEN FileTypes ELSE {}]
              /\ worker' = [worker EXCEPT ![t] =
                               Calling([@ EXCEPT !.success = convert_success],
                                       "processing", 80, "check")]
    /\ UNCHANGED <<conversion_tasks, task, download, clear, response, cleared, converter_vars>>

\* result.get('success') and the two exists() tests
WorkerCheck(t) ==
    /\ worker[t].pc = "check"
    /\ worker' = IF worker[t].success /\ disk[t].files # {}
                 THEN [worker EXCEPT ![t].pc = "record", ![t].seen = disk[t].files]
                 ELSE [worker EXCEPT ![t] = Calling(@, "failed", 0, "done")]
    /\ UNCHANGED <<conversion_tasks, task, disk, download, clear, response, cleared,
                   converter_vars>>

\* task.result_files is filled, json first; stat() of a file that is gone
\* raises and the except clause reports the failure
WorkerRecord(t) ==
    /\ worker[t].pc = "record"
    /\ IF worker[t].seen \subseteq disk[t].files
       THEN /\ task' = [task EXCEPT ![t].result_files = worker[t].seen]
            /\ worker' = [worker EXCEPT ![t] = Calling(@, "completed", 100, "done")]
       ELSE /\ task' = [task EXCEPT ![t].result_files =
                           IF "json" \in worker[t].seen /\ "json" \notin disk[t].files
                           THEN {} ELSE worker[t].seen \cap {"json"}]
            /\ worker' = [worker EXCEPT ![t] = Calling(@, "failed", 0, "done")]
    /\ UNCHANGED <<conversion_tasks, disk, download, clear, response, cleared, converter_vars>>

WorkerStep(t) ==
    \/ WorkerFetch(t)
    \/ UpdateStatus(t)
    \/ UpdateEndTime(t)
    \/ WorkerMakeDirs(t)
    \/ WorkerConvert(t)
    \/ WorkerCheck(t)
    \/ WorkerRecord(t)

\* get_status: the fields of the task as to_dict reads them
GetStatus(t) ==
    /\ response' = IF t \notin conversion_tasks THEN Responded("status", t, 404)
                   ELSE [handler |-> "status", id |-> t, code |-> 200,
                         status |-> task[t].status, progress |-> task[t].progress,
                         end_time |-> task[t].end_time]
    /\ UNCHANGED <<conversion_tasks, task, disk, worker, download, clear, cleared,
                   converter_vars>>

\* download_file: the membership test and task = conversion_tasks[task_id]
DownloadStart(t, ty) ==
    /\ download.pc = "idle"
    /\ IF t \notin conversion_tasks
       THEN /\ response' = Responded("download", t, 404)
            /\ download' = download
       ELSE /\ response' = NoResponse
            /\ download' = [pc |-> "check", id |-> t, type |-> ty]
    /\ UNCHANGED <<conversion_tasks, task, disk, worker, clear, cleared, converter_vars>>

\* faulty variant of DownloadCheck: the status is not tested
DownloadCheck_NoStatus ==
    /\ download.pc = "check"
    /\ LET t == download.id
           code == IF download.type \notin task[t].result_files THEN 404
                   ELSE IF download.type \notin disk[t].files THEN 404
                   ELSE 0
       IN  IF code # 0
           THEN /\ response' = Responded("download", t, code)
                /\ download' = NoRequest
           ELSE /\ response' = response
                /\ download' = [download EXCEPT !.pc = "send"]
    /\ UNCHANGED <<conversion_tasks, task, disk, worker, clear, cleared, converter_vars>>

\* download_file: status, result_files and file_path.exists()
DownloadCheck ==
    /\ download.pc = "check"
    /\ LET t == download.id
           code == IF task[t].status # "completed" THEN 400
                   ELSE IF download.type \notin task[t].result_files THEN 404
                   ELSE IF download.type \notin disk[t].files THEN 404
                   ELSE 0
       IN  IF code # 0
           THEN /\ response' = Responded("download", t, code)
                /\ download' = NoRequest
           ELSE /\ response' = response
                /\ download' = [download EXCEPT !.pc = "send"]
    /\ UNCHANGED <<conversion_tasks, task, disk, worker, clear, cleared, converter_vars>>

\* download_file: send_file opens the file; a file that is gone is an error
DownloadSend ==
    /\ download.pc = "send"
    /\ response' = Responded("download", download.id,
                             IF download.type \in disk[download.id].files THEN 200 ELSE 500)
    /\ download' = NoRequest
    /\ UNCHANGED <<conversion_tasks, task, disk, worker, clear, cleared, converter_vars>>

\* clear_task: the membership test
ClearStart(t) ==
    /\ clear.pc = "idle"
    /\ IF t \notin conversion_tasks
       THEN /\ response' = Responded("clear", t, 404)
            /\ clear' = clear
       ELSE /\ response' = NoResponse
            /\ clear' = [pc |-> "remove", id |-> t, type |-> "none"]
    /\ UNCHANGED <<conversion_tasks, task, disk, worker, download, cleared, converter_vars>>

\* clear_task: shutil.rmtree(task_dir) and unlink of the uploaded files
ClearRemove ==
    /\ clear.pc = "remove"
    /\ disk' = [disk EXCEPT ![clear.id] = [dir |-> FALSE, files |-> {}, upload |-> FALSE]]
    /\ clear' = [clear EXCEPT !.pc = "delete"]
    /\ UNCHANGED <<conversion_tasks, task, worker, download, response, cleared, converter_vars>>

\* clear_task: del conversion_tasks[task_id] and the success response
ClearDelete ==
    /\ clear.pc = "delete"
    /\ IF clear.id \in conversion_tasks
       THEN /\ conversion_tasks' = conversion_tasks \ {clear.id}
            /\ cleared' = cleared \cup {clear.id}
            /\ response' = Responded("clear", clear.id, 200)
       ELSE /\ response' = Responded("clear", clear.id, 500)
            /\ UNCHANGED <<conversion_tasks, cleared>>
    /\ clear' = NoRequest
    /\ UNCHANGED <<task, disk, worker, download, converter_vars>>

InitWeb ==
    /\ word_paragraphs = <<>>
    /\ tables = <<>>
    /\ Constructed
    /\ json_exists = FALSE
    /\ json_questions = <<>>
    /\ pc = "start"

NextWeb ==
    \/ \E t \in TaskIds : Upload(t)
    \/ \E t \in TaskIds : WorkerFetch(t)
    \/ \E t \in TaskIds : UpdateStatus(t)
    \/ \E t \in TaskIds : UpdateEndTime(t)
    \/ \E t \in TaskIds : WorkerMakeDirs(t)
    \/ \E t \in TaskIds : WorkerConvert(t)
    \/ \E t \in TaskIds : WorkerCheck(t)
    \/ \E t \in TaskIds : WorkerRecord(t)
    \/ \E t \in TaskIds : GetStatus(t)
    \/ \E t \in TaskIds : \E ty \in RequestTypes : DownloadStart(t, ty)
    \/ DownloadCheck
    \/ DownloadSend
    \/ \E t \in TaskIds : ClearStart(t)
    \/ ClearRemove
    \/ ClearDelete

SpecWeb == InitWeb /\ [][NextWeb]_vars

\* every started thread keeps running: the converter call returns and the
\* scheduler does not starve a thread
SpecWebLive == SpecWeb /\ \A t \in TaskIds : WF_vars(WorkerStep(t))

(***************************************************************************)
(* Claims                                                                  *)
(***************************************************************************)

\* the run of parse_survey_document has ended, with a result or an error
ParseEnded == parse_result # "none"

\* number of paragraphs matching the answer-logic pattern
MarkerCount == Cardinality({ k \in 1..Len(paragraphs) : _is_answer_logic(paragraphs[k]) })

\* C1: the questions collected by _parse_questions carry, in list order, the
\* index values 1, 2, ..., N; the question in progress carries the next
\* index, so no index is skipped, repeated or reused; the returned records
\* carry the same indexes.
C1_IndexSequence ==
    /\ \A k \in 1..Len(questions) : questions[k].index = k
    /\ current_question # NoQuestion => current_question.index = Len(questions) + 1
    /\ question_index = Len(questions) + (IF current_question # NoQuestion THEN 2 ELSE 1)
    /\ parse_result = "ok" =>
          /\ Len(json_questions) = Len(questions)
          /\ \A k \in 1..Len(json_questions) : json_questions[k].index = k

\* C1 witness: a run that returned two or more questions
C1_Witness == parse_result = "ok" /\ Len(json_questions) >= 2

\* C2, as claimed: every question that was started is appended exactly once,
\* so when the run has ended the returned questions are as many as the
\* answer-logic markers, and a document without markers ends without error
\* and with no question.
C2_StartedQuestionsReturned ==
    /\ question_index - 1 = Len(questions) + (IF current_question # NoQuestion THEN 1 ELSE 0)
    /\ ParseEnded =>
          /\ parse_result = "ok"
          /\ current_question = NoQuestion
          /\ Len(questions) = MarkerCount
          /\ Len(json_questions) = MarkerCount

\* C3, as claimed: for every paragraph sequence and every option-list
\* sequence, segmentation never raises: parse_survey_document never returns
\* an error result.
C3_NeverRaises == parse_result # "error"

\* whether one of the keyword rules of _assign_table_options applies to text
KeywordRuleMatches(text) ==
    \/ contains(kw_gender, text)
    \/ contains(kw_age, text)
    \/ contains(kw_residency, text)
    \/ contains(kw_creditcard, text) /\ contains(kw_holds_any, text)
    \/ contains(kw_occupation, text)
    \/ contains(kw_annual_income, text)
    \/ contains(kw_bank, text)
    \/ contains(kw_creditcard, text) /\ contains(kw_holds_which, text)
    \/ contains(kw_mmpower, lower(text)) \/ contains(kw_mastercard, lower(text))
    \/ contains(kw_spending, text) \/ contains(kw_expense, text)

\* the binding C4 states: position index-1 (0-based) when it exists and is
\* non-empty, else the nearest non-empty list forward, else the nearest
\* non-empty list backward, else none
ClaimedDefault(index, topts) ==
    LET n == Len(topts)
        forward == { k \in (index + 1)..n : topts[k] # <<>> }
        backward == { k \in 1..Min(index - 1, n) : topts[k] # <<>> }
    IN  IF index <= n /\ topts[index] # <<>> THEN Bind(index)
        ELSE IF forward # {} THEN Bind(CHOOSE k \in forward : \A j \in forward : k <= j)
        ELSE IF backward # {} THEN Bind(CHOOSE k \in backward : \A j \in backward : k >= j)
        ELSE Unbound

\* C4, as claimed: for the question in progress, when its text matches no
\* keyword rule, _assign_table_options binds the list the positional default
\* describes (and does not raise).
C4_PositionalDefault ==
    (/\ current_question # NoQuestion
     /\ current_question.question_text # EmptyStr
     /\ ~KeywordRuleMatches(current_question.question_text))
    => _assign_table_options(current_question, table_options)
         = ClaimedDefault(current_question.index, table_options)

\* the element is a numeric-entry element without option rows
NumericEntryNoRows(e) ==
    /\ e.tag = "number"
    /\ \A k \in 1..Len(e.children) : e.children[k].tag # "row"

\* Scenario B has run to the end: the paragraphs of the scenario, no tables
ScenarioB_Done ==
    /\ pc = "done"
    /\ paragraphs = <<strip(P_AskAll), P_HowOld>>
    /\ tables = <<>>

\* the same scenario with the question asked in Chinese
ScenarioB_Chinese_Done ==
    /\ pc = "done"
    /\ paragraphs = <<strip(P_AskAll), P_Age>>
    /\ tables = <<>>

\* C5, as claimed: Scenario B yields one question of type Numeric and a
\* markup with one numeric-entry element without option rows.
C5_Original ==
    ScenarioB_Done =>
        /\ Len(json_questions) = 1
        /\ json_questions[1].question_type = Numeric
        /\ Len(root) = 2
        /\ NumericEntryNoRows(root[1])

\* C5, amended: Scenario B yields one question (Q2x3) whose type stays empty,
\* since the numeric-keyword rule knows only Chinese keywords; it is counted
\* as Unknown and the markup has no element.  With the question in Chinese
\* ("2.3 <your age is>?") the type is Numeric and the markup has one
\* numeric-entry element without option rows, followed by its terminator.
C5_ScenarioB ==
    /\ ScenarioB_Done =>
          /\ Len(json_questions) = 1
          /\ json_questions[1].question_id = <<"Q", "2", "x", "3">>
          /\ json_questions[1].question_type = EmptyStr
          /\ json_questions[1].question_options = <<>>
          /\ root = <<>>
          /\ processed_count = [ZeroCount EXCEPT !.unknown = 1]
    /\ ScenarioB_Chinese_Done =>
          /\ Len(json_questions) = 1
          /\ json_questions[1].question_type = Numeric
          /\ json_questions[1].question_options = <<>>
          /\ Len(root) = 2
          /\ NumericEntryNoRows(root[1])
          /\ root[2] = Suspend

\* C5 witness: Scenario B has run through segmentation and emission
C5_Witness == ScenarioB_Done /\ xml_result = "true"

\* C6, as claimed: every question_type stored by segmentation is the
\* Single-Answer, Multiple-Answers or Numeric value, or empty.
C6_TypeVocabulary ==
    /\ \A k \in 1..Len(questions) :
          questions[k].question_type \in EmittedTypes \cup {EmptyStr}
    /\ \A k \in 1..Len(json_questions) :
          json_questions[k].question_type \in EmittedTypes \cup {EmptyStr}

\* the element a type marker stands for, by its first word, case-insensitively
ElementForMarker(ty) ==
    IF HasAt(lower(ty), 1, kw_single) THEN "radio"
    ELSE IF HasAt(lower(ty), 1, kw_multiple) THEN "checkbox"
    ELSE IF HasAt(lower(ty), 1, kw_numeric) THEN "number"
    ELSE "none"

\* the returned questions that have a type
TypedQuestions == SelectSeq(json_questions, LAMBDA q : q.question_type # EmptyStr)

\* C7, as claimed: after a conversion run, every question that has a type is
\* emitted, in order, as the element its marker stands for, followed by its
\* terminator; only questions without a type are skipped.
C7_MarkersEmitted ==
    (pc = "done" /\ parse_result = "ok") =>
        /\ Len(root) = 2 * Len(TypedQuestions)
        /\ \A k \in 1..Len(TypedQuestions) :
              /\ 2 * k <= Len(root)
              /\ root[2 * k - 1].tag = ElementForMarker(TypedQuestions[k].question_type)
              /\ root[2 * k - 1].attrs[1] = <<"label", TypedQuestions[k].question_id>>

\* number of question elements the current call has emitted
EmittedCount ==
    processed_count.single + processed_count.multiple + processed_count.numeric

\* the index of the question an element was emitted for, read back from its
\* label "Q1x<index>"
IndexOfElement(e) ==
    CHOOSE n \in 1..(MaxQuestions + 1) : e.attrs[1][2] = <<"Q", "1", "x">> \o DecimalStr(n)

\* C8, as claimed: when generate_xml has returned, the children of the
\* container are, for each emitted question in ascending index order, its
\* element followed by one terminator: 2 x (emitted questions) children,
\* alternately a question element and a terminator.
C8_ElementsAndTerminators ==
    (pc = "done" /\ xml_result = "true") =>
        /\ Len(root) = 2 * EmittedCount
        /\ \A k \in 1..Len(root) :
              IF k % 2 = 1 THEN root[k].tag \in {"radio", "checkbox", "number"}
              ELSE root[k] = Suspend
        /\ \A k \in 1..Len(root) :
              (k % 2 = 1 /\ k + 2 <= Len(root)) =>
                  IndexOfElement(root[k]) <= IndexOfElement(root[k + 2])

\* the step of generate_xml's loop on a question of Unknown type
UnknownAtHand ==
    /\ pc = "emit"
    /\ xi <= Len(xml_questions)
    /\ xml_questions[xi].question_type \notin EmittedTypes

\* C9: a question whose type is not one of the three emitted types adds no
\* element and no terminator to the container, increments the Unknown
\* counter and no other, and the loop goes on; generate_xml on an existing
\* JSON file never returns False; when it has returned, the four counters
\* sum to the number of input questions.
C9_UnknownSkipped ==
    /\ [][UnknownAtHand =>
            /\ root' = root
            /\ processed_count' = [processed_count EXCEPT !.unknown = @ + 1]
            /\ pc' = "emit"
            /\ xi' = xi + 1]_vars
    /\ [](json_exists => xml_result # "false")
    /\ []((pc = "done" /\ xml_result = "true") =>
            EmittedCount + processed_count.unknown = Len(json_questions))

\* C9 witness: a call has returned after skipping one question and emitting
\* another
C9_Witness ==
    /\ pc = "done"
    /\ xml_result = "true"
    /\ processed_count.unknown >= 1
    /\ EmittedCount >= 1

\* the five reserved characters and their entities, character by character
EscapedChar(c) ==
    CASE c = "&" -> <<"&", "a", "m", "p", ";">>
      [] c = "<" -> <<"&", "l", "t", ";">>
      [] c = ">" -> <<"&", "g", "t", ";">>
      [] c = "\"" -> <<"&", "q", "u", "o", "t", ";">>
      [] c = "'" -> <<"&", "a", "p", "o", "s", ";">>
      [] OTHER -> <<c>>

RECURSIVE EscapedForm(_)
EscapedForm(s) == IF s = <<>> THEN <<>> ELSE EscapedChar(Head(s)) \o EscapedForm(Tail(s))

\* the option rows of an element
Rows(e) == SelectSeq(e.children, LAMBDA c : c.tag = "row")

\* the rows C10 states for the options of a question
ClaimedRows(options, with_value) ==
    [k \in 1..Len(options) |->
        [tag |-> "row",
         attrs |-> IF with_value
                   THEN << <<"label", <<"r">> \o options[k].option_code>>,
                           <<"value", options[k].option_code>> >>
                   ELSE << <<"label", <<"r">> \o options[k].option_code>> >>,
         text |-> EscapedForm(options[k].option_text)]]

\* C10: the element emitted for a Single Answer or Multiple Answers question
\* has exactly one row per option of the question, in the same order, each
\* with label "r" + option_code and the escaped option_text as text; the
\* rows of a single-choice element also carry value = option_code, those of
\* a multi-choice element carry no value.
C10_OptionRows ==
    [][(/\ pc = "emit"
        /\ xi <= Len(xml_questions)
        /\ xml_questions[xi].question_type \in {SingleAnswer, MultipleAnswers})
       => /\ Len(root') = Len(root) + 2
          /\ Rows(root'[Len(root) + 1]) =
                ClaimedRows(xml_questions[xi].question_options,
                            xml_questions[xi].question_type = SingleAnswer)]_vars

\* C10 witness: a single-choice and a multi-choice element with two rows each
\* have been emitted
C10_Witness ==
    /\ pc = "done"
    /\ \E k \in 1..Len(root) : root[k].tag = "radio" /\ Len(Rows(root[k])) = 2
    /\ \E k \in 1..Len(root) : root[k].tag = "checkbox" /\ Len(Rows(root[k])) = 2

\* the question text "a<&"" with each of <, & and " written once as its entity
C11_EscapedOnce ==
    <<"a", "&", "l", "t", ";", "&", "a", "m", "p", ";", "&", "q", "u", "o", "t", ";">>

\* the question elements of the written document
WrittenQuestions == SelectSeq(xml_file, LAMBDA e : e.tag # "suspend")

\* C11, as claimed: in the written document the title of every question
\* element, for the question text a<&", reads a&lt;&amp;&quot; : each of the
\* three characters replaced once by its entity, no other character altered.
C11_TextEscapedInDocument ==
    (pc = "done" /\ xml_result = "true") =>
        \A k \in 1..Len(WrittenQuestions) :
            /\ WrittenQuestions[k].children[1].tag = "title"
            /\ WrittenQuestions[k].children[1].text = C11_EscapedOnce

\* C12, as claimed: when the pipeline has run twice on the same paragraphs
\* and table grids, the second run left the same question records and the
\* same markup document as the first.
C12_RerunIdentical ==
    Len(outputs) >= 2 =>
        /\ outputs[2].json = outputs[1].json
        /\ outputs[2].xml = outputs[1].xml

\* C13, as claimed: the document a generate_xml call writes holds only the
\* elements of that call's questions, one per emitted question, also on a
\* second call on the same generator.
C13_NoCarryOver ==
    (pc = "done" /\ xml_result = "true") =>
        /\ Len(WrittenQuestions) = EmittedCount
        /\ Len(xml_file) = 2 * EmittedCount

\* the extractor has run on the grids
Extracted == pc # "start"

\* what C14 states a row appends when count options were collected before it
ClaimedRowOptions(row, count) ==
    LET pair(a, b) == IF row[a] # EmptyStr /\ row[b] # EmptyStr
                      THEN <<[option_code |-> row[b], option_text |-> row[a]]>>
                      ELSE <<>>
    IN  CASE Len(row) >= 4 -> pair(1, 2) \o pair(3, 4)
          [] Len(row) \in {2, 3} -> pair(1, 2)
          [] Len(row) = 1 ->
                IF row[1] # EmptyStr /\ \E k \in 1..Len(row[1]) : ~IsDigitChar(row[1][k])
                THEN <<[option_code |-> DecimalStr(count + 1), option_text |-> row[1]]>>
                ELSE <<>>
          [] OTHER -> <<>>

\* the options C14 states for the first n rows of a grid
RECURSIVE ClaimedGridOptions(_, _)
ClaimedGridOptions(grid, n) ==
    IF n = 0 THEN <<>>
    ELSE LET before == ClaimedGridOptions(grid, n - 1)
         IN  before \o ClaimedRowOptions(grid[n], Len(before))

\* the options C14 states for the first n grids, one after the other
RECURSIVE ClaimedAllOptions(_, _)
ClaimedAllOptions(grids, n) ==
    IF n = 0 THEN <<>>
    ELSE ClaimedAllOptions(grids, n - 1) \o ClaimedGridOptions(grids[n], Len(grids[n]))

\* the options of the first n lists, one after the other
RECURSIVE Flattened(_, _)
Flattened(lists, n) == IF n = 0 THEN <<>> ELSE Flattened(lists, n - 1) \o lists[n]

\* C14: the options the extractor collected are, in row order, those the
\* shape rules give: two independent pairs for a row of 4 or more cells, one
\* pair for 2 or 3 cells, a label with code 1 + (options collected so far in
\* the table) for one non-empty, not purely numeric cell.
C14_RowShapes ==
    Extracted =>
        Flattened(table_options, Len(table_options)) = ClaimedAllOptions(tables, Len(tables))

\* C14 witness: a grid with a label row after a pair row, and a wide row of
\* which only the second pair is usable, have been extracted
C14_Witness ==
    /\ Extracted
    /\ \/ tables = << << << <<"A">>, <<"1">> >>, << <<"A">> >> >> >>
       \/ tables = << << << <<>>, <<"1">>, <<"B">>, <<"2">> >> >> >>
    /\ table_options # <<>>

\* the grids that yield at least one option, by C14's rules
YieldingGrids ==
    { k \in 1..Len(tables) : ClaimedGridOptions(tables[k], Len(tables[k])) # <<>> }

\* C15: the extractor's output has one list for each grid that yields an
\* option and none for the others, in grid order; no list is empty, every
\* option has a non-empty code and text, and there are no more lists than
\* grids.
C15_ListsOfYieldingGrids ==
    Extracted =>
        /\ Len(table_options) = Cardinality(YieldingGrids)
        /\ Len(table_options) <= Len(tables)
        /\ \A j \in 1..Len(table_options) :
              /\ table_options[j] # <<>>
              /\ \A k \in 1..Len(table_options[j]) :
                    /\ table_options[j][k].option_code # EmptyStr
                    /\ table_options[j][k].option_text # EmptyStr
              /\ \E g \in YieldingGrids :
                    /\ Cardinality({ h \in YieldingGrids : h <= g }) = j
                    /\ table_options[j] = ClaimedGridOptions(tables[g], Len(tables[g]))

\* C15 witness: two grids were extracted, the first yields nothing, and
\* the one list is that of the second
C15_Witness ==
    /\ Extracted
    /\ Len(tables) = 2
    /\ YieldingGrids = {2}
    /\ Len(table_options) = 1

\* the option codes of a list are pairwise distinct
DistinctCodes(options) ==
    \A a, b \in 1..Len(options) :
        a # b => options[a].option_code # options[b].option_code

\* C16, as claimed: in every list of the extractor and in every question's
\* question_options the option codes are pairwise distinct.
C16_CodesDistinct ==
    /\ \A j \in 1..Len(table_options) : DistinctCodes(table_options[j])
    /\ \A k \in 1..Len(questions) :
          DistinctCodes(QuestionOptions(questions[k], table_options))

\* C17, as claimed: every returned question has a non-empty question_id,
\* "Q<A>x<B>" from the numbering "A.B" of its text paragraph or else the
\* fallback "Q1x<index>", whatever follows the answer-logic marker.
C17_QuestionIdSet ==
    parse_result = "ok" =>
        \A k \in 1..Len(json_questions) :
            /\ json_questions[k].question_id # EmptyStr
            /\ \/ json_questions[k].question_id = <<"Q", "2", "x", "3">>
               \/ json_questions[k].question_id =
                      <<"Q", "1", "x">> \o DecimalStr(json_questions[k].index)

\* position of the first paragraph containing the text, 0 if none
FirstOccurrence(text, paras) ==
    LET hits == { k \in 1..Len(paras) : contains(text, paras[k]) }
    IN  IF hits = {} THEN 0 ELSE CHOOSE k \in hits : \A j \in hits : k <= j

\* the type markers among the 5 paragraphs before and the 10 paragraphs after
\* position p
ClaimedWindow(p, paras) ==
    { k \in Max(1, p - 5)..Min(Len(paras), p + 10) : _is_question_type(paras[k]) }

\* C18, as claimed: the first question of the document, which gets no type
\* from its own paragraphs, gets the first type marker found among the 5
\* paragraphs before and the 10 paragraphs after the paragraph with its text.
C18_WindowFiveTen ==
    (parse_result = "ok" /\ Len(json_questions) >= 1) =>
        LET p == FirstOccurrence(json_questions[1].question_text, paragraphs)
            window == ClaimedWindow(p, paragraphs)
            own == { k \in 1..Len(paragraphs) :
                        /\ k > p
                        /\ _is_question_type(paragraphs[k])
                        /\ \/ k <= p + TypeLookahead - 1
                           \/ \A j \in (p + 1)..k : ~_is_answer_logic(paragraphs[j]) }
        IN  (p > 0 /\ own = {} /\ window # {}) =>
                json_questions[1].question_type =
                    question_type_group1(paragraphs[CHOOSE k \in window : \A j \in window : k <= j])

\* the text has a quantity keyword / a multi-select cue
HasQuantityKeyword(text) == \E w \in NumericKeywords : contains(w, lower(text))
HasMultiSelectCue(text) == \E w \in MultiSelectKeywords : contains(w, lower(text))

\* the options are two, one male and the other female
GenderPair(options) ==
    /\ Len(options) = 2
    /\ \E a, b \in 1..2 :
          /\ a # b
          /\ contains(kw_male, options[a].option_text)
          /\ contains(kw_female, options[b].option_text)

\* the options are two and at least one shows the male or the female word
GenderOption(options) ==
    /\ Len(options) = 2
    /\ \E k \in 1..2 : contains(kw_male, options[k].option_text)
                       \/ contains(kw_female, options[k].option_text)

\* the inferred type, given whether the options count as the gender case
ClaimedInference(text, options, gender) ==
    IF HasQuantityKeyword(text) THEN Numeric
    ELSE IF HasMultiSelectCue(text) THEN MultipleAnswers
    ELSE IF gender THEN SingleAnswer
    ELSE IF Len(options) > 2 /\ \A k \in 1..Len(options) : options[k].option_text # EmptyStr
    THEN SingleAnswer
    ELSE EmptyStr

\* the document has no type marker: every type comes from inference
NoMarkerParsed ==
    /\ parse_result = "ok"
    /\ \A k \in 1..Len(paragraphs) : ~_is_question_type(paragraphs[k])

\* C19, as claimed: a returned question with a text, typed by no marker, has
\* the type inferred with the precedence quantity keyword (Numeric),
\* multi-select cue (Multiple Answers), exactly 2 options forming a
\* male/female pair (Single Answer), more than 2 options (Single Answer),
\* else none.
C19_Original ==
    NoMarkerParsed =>
        \A k \in 1..Len(json_questions) :
            LET q == json_questions[k]
            IN  q.question_text # EmptyStr =>
                  q.question_type =
                      ClaimedInference(q.question_text, q.question_options,
                                       GenderPair(q.question_options))

\* C19, amended: the same precedence, the third rule being exactly 2 options
\* of which at least one shows the male or the female word; with both a
\* quantity keyword and a cue the type is Numeric; with no keyword and 0, 1
\* or 2 options none of which shows the male or the female word it stays
\* empty.
C19_InferencePrecedence ==
    NoMarkerParsed =>
        \A k \in 1..Len(json_questions) :
            LET q == json_questions[k]
            IN  q.question_text # EmptyStr =>
                  /\ q.question_type =
                        ClaimedInference(q.question_text, q.question_options,
                                         GenderOption(q.question_options))
                  /\ (HasQuantityKeyword(q.question_text) /\ HasMultiSelectCue(q.question_text))
                        => q.question_type = Numeric
                  /\ (/\ ~HasQuantityKeyword(q.question_text)
                      /\ ~HasMultiSelectCue(q.question_text)
                      /\ Len(q.question_options) <= 2
                      /\ ~GenderOption(q.question_options))
                        => q.question_type = EmptyStr

\* C19 witness: a question without keyword whose two options are a male
\* option and another one was returned, typed by the third rule
C19_Witness ==
    /\ NoMarkerParsed
    /\ Len(json_questions) = 1
    /\ json_questions[1].question_text = P_YourName
    /\ GenderOption(json_questions[1].question_options)
    /\ ~GenderPair(json_questions[1].question_options)
    /\ json_questions[1].question_type = SingleAnswer

\* C20: an assignment attempt at a type marker leaves the non-empty options
\* of the question in progress as they are, unless the question text has the
\* bank keyword and the marker says "Multiple", when the options become the
\* last option list
C20_BoundOnlyWhenEmpty ==
    [][ ( /\ pc = "scan"
          /\ i <= Len(paragraphs)
          /\ ~_is_answer_logic(Para)
          /\ _is_question_type(Para)
          /\ current_question # NoQuestion
          /\ QuestionOptions(current_question, table_options) # <<>> )
        => \/ QuestionOptions(current_question', table_options')
                = QuestionOptions(current_question, table_options)
           \/ /\ contains(kw_bank, current_question.question_text)
              /\ contains(kw_Multiple, Para)
              /\ table_options # <<>>
              /\ QuestionOptions(current_question', table_options')
                   = table_options[Len(table_options)] ]_vars

\* the rules in the order C21 states, as the position of the first rule whose
\* keyword test matches text; rule 11 is the positional default
ClaimedRuleMatches(r, text) ==
    CASE r = 1 -> contains(kw_gender, text)
      [] r = 2 -> contains(kw_age, text)
      [] r = 3 -> contains(kw_residency, text)
      [] r = 4 -> contains(kw_creditcard, text) /\ contains(kw_holds_any, text)
      [] r = 5 -> contains(kw_occupation, text)
      [] r = 6 -> contains(kw_annual_income, text)
      [] r = 7 -> contains(kw_bank, text)
      [] r = 8 -> contains(kw_creditcard, text) /\ contains(kw_holds_which, text)
      [] r = 9 -> contains(kw_mmpower, lower(text)) \/ contains(kw_mastercard, lower(text))
      [] r = 10 -> contains(kw_spending, text) \/ contains(kw_expense, text)
      [] OTHER -> TRUE

ClaimedRule(text) ==
    CHOOSE r \in 1..11 : ClaimedRuleMatches(r, text)
                           /\ \A e \in 1..(r - 1) : ~ClaimedRuleMatches(e, text)

\* the list (1-based position) rule r binds, 0 when its target does not exist
ClaimedTarget(r, text, index, topts) ==
    LET n == Len(topts)
        cards == { k \in 1..n : IsCardTable(topts[k]) }
        amounts == { k \in 1..n : IsAmountTable(topts[k]) }
        at(k) == IF 1 <= k /\ k <= n THEN k ELSE 0
    IN  CASE r = 1 -> at(1)
          [] r = 2 -> at(2)
          [] r = 3 -> at(3)
          [] r = 4 -> at(4)
          [] r = 5 -> IF index \in {5, 6} THEN at(index) ELSE 0
          [] r = 6 -> at(7)
          [] r = 7 -> n
          [] r = 8 -> FirstTable(cards)
          [] r = 9 -> IF contains(kw_when_obtained, text) \/ contains(kw_when, lower(text))
                      THEN at(10) ELSE at(index - 1)
          [] r = 10 -> FirstTable(amounts)
          [] OTHER -> ClaimedDefault(index, topts).bind

\* C21: the options of the one question of a parsed document are the list
\* the first matching rule of the chain (gender, age, residency, holds any
\* card, occupation, annual income, bank, which cards, card keyword,
\* spending, positional default) addresses, and stay empty when that list
\* does not exist: no later rule is tried
C21_FirstRuleOnly ==
    (parse_result = "ok" /\ Len(json_questions) = 1)
    => LET q == json_questions[1]
           t == ClaimedTarget(ClaimedRule(q.question_text), q.question_text,
                              q.index, table_options)
       IN  q.question_options = IF t = 0 THEN <<>> ELSE table_options[t]

\* a text with the age and the bank keyword over one grid: the age rule is
\* first, its second list does not exist, and the options stay empty although
\* the bank rule and the positional default have a list
C21_Witness ==
    /\ parse_result = "ok"
    /\ Len(json_questions) = 1
    /\ json_questions[1].question_text = kw_age \o kw_bank
    /\ Len(table_options) = 1
    /\ json_questions[1].question_options = <<>>

\* position of the answer-logic marker that started the question in progress:
\* the last marker before position pos, 0 when there is none
LastMarkerBefore(paras, pos) ==
    LET ms == { k \in 1..(pos - 1) : k <= Len(paras) /\ _is_answer_logic(strip(paras[k])) }
    IN  IF ms = {} THEN 0 ELSE CHOOSE k \in ms : \A j \in ms : k >= j

\* the paragraph at hand is the one the lookahead took the text of the
\* question in progress from
TextParagraphAtHand ==
    /\ pc = "scan"
    /\ i <= Len(paragraphs)
    /\ current_question # NoQuestion
    /\ current_question.question_text # EmptyStr
    /\ LastMarkerBefore(paragraphs, i) # 0
    /\ NextTextPos(paragraphs, LastMarkerBefore(paragraphs, i)) = i

\* C22: when the scan reaches the paragraph the lookahead used as the text
\* of the question in progress, the step leaves the options of that question
\* as they are
C22_TextNotReprocessed ==
    [][ TextParagraphAtHand
        => QuestionOptions(current_question', table_options')
             = QuestionOptions(current_question, table_options) ]_vars

\* C23: for every question in progress, finalizing it at the end of the
\* paragraphs gives the same record (question_type, question_options and
\* the other fields) as finalizing it because a new answer-logic marker is
\* seen, and the assignment of the end path does not raise
C23_SameFinalization ==
    (pc = "scan" /\ current_question # NoQuestion)
    => /\ ~EndAssignment(current_question, table_options).raised
       /\ JsonQuestion(FinalizedAtEnd(current_question, paragraphs, table_options), table_options)
            = JsonQuestion(FinalizedAtMarker(current_question, paragraphs, table_options),
                           table_options)

\* a question in progress without type and without options whose
\* finalization finds a type, after an earlier question was appended at a
\* marker
C23_Witness ==
    /\ pc = "scan"
    /\ questions # <<>>
    /\ current_question # NoQuestion
    /\ current_question.question_text # EmptyStr
    /\ current_question.question_type = EmptyStr
    /\ QuestionOptions(current_question, table_options) = <<>>
    /\ FinalizedAtEnd(current_question, paragraphs, table_options).question_type # EmptyStr

\* C24: a step of the scan that appends an inline option changes neither a
\* list of the Table-Option Extractor nor the options of a question already
\* collected
C24_AppendIsLocal ==
    [][ (pc = "scan" /\ i <= Len(paragraphs) /\ current_question # NoQuestion
         /\ ~_is_answer_logic(Para) /\ ~_is_question_type(Para) /\ _is_option(Para))
        => /\ table_options' = table_options
           /\ \A k \in 1..Len(questions) :
                 QuestionOptions(questions[k], table_options')
                   = QuestionOptions(questions[k], table_options) ]_vars

\* C25: no two questions returned by one run of _parse_questions have the
\* same non-empty question_id
C25_DistinctQuestionIds ==
    parse_result = "ok"
    => \A j, k \in 1..Len(json_questions) :
          (j < k /\ json_questions[j].question_id # EmptyStr)
          => json_questions[j].question_id # json_questions[k].question_id

\* C26: when convert returns success, this run's parse step produced the
\* records and this run's emit step wrote the document
C26_SuccessMeansBothSteps ==
    (convert_returned /\ convert_success)
    => (parse_result = "ok" /\ xml_result = "true")

\* the status of a task moves along pending -> processing -> completed or
\* failed, and a final status stays
StatusMovesForward ==
    \A t \in TaskIds :
       \/ task'[t].status = task[t].status
       \/ task[t].status = "pending" /\ task'[t].status = "processing"
       \/ task[t].status = "processing" /\ task'[t].status \in Terminal

\* end_time is set exactly with a final status; completed comes with
\* progress 100 and some result file
StatusConsistent ==
    \A t \in TaskIds :
       /\ task[t].end_time <=> task[t].status \in Terminal
       /\ task[t].status = "completed"
            => (task[t].progress = 100 /\ task[t].result_files # {})

\* C27: a task's status only moves forward along pending -> processing ->
\* (completed | failed) and never leaves a final status; end_time is set
\* exactly when the status is final; completed implies progress 100 and a
\* non-empty result_files
C27_StatusLifecycle == [][StatusMovesForward]_vars /\ []StatusConsistent

\* C28: every task registered by upload_file eventually has the status
\* completed or failed, whatever status, download and clear requests run
\* beside its thread
C28_EventuallyFinal ==
    \A t \in TaskIds : (t \in conversion_tasks) ~> (task[t].status \in Terminal)

\* C29: once clear_task has returned success for a task, its output
\* directory, its result files and its uploaded file do not exist
C29_ClearedStaysGone ==
    \A t \in cleared :
       /\ ~disk[t].dir
       /\ disk[t].files = {}
       /\ ~disk[t].upload

\* the step in which download_file sends the requested file
FileServed ==
    /\ download.pc = "send"
    /\ download'.pc = "idle"
    /\ response'.handler = "download"
    /\ response'.code = 200

====
